---- MODULE Spec2Model ----
(***************************************************************************)
(* A model of the mancalamax rule engine (src/src/game/mancala.rs): the    *)
(* GameState value, the Mancala trait's default methods (is_over, score,   *)
(* swap_allowed, valid_moves, rotate_board, switch_turn, make_move) and a  *)
(* driver that keeps calling make_move on the state it holds.              *)
(*                                                                         *)
(* Rows are functions over 0..N-1, exactly the indices the code uses.      *)
(***************************************************************************)
EXTENDS Integers, Sequences, FiniteSets, TLC

VARIABLES state, initial, last

\* The search engine: the Minimax value, the wall clock, the search calls
\* made on the engine, and the latest node a call entered.
VARIABLES engine, now, inv, visit

\* A builder under configuration and a data-set example in conversion.
VARIABLES builder, example

\* The external agent's moves file for the current ply and the position of
\* the call that reads the agent's move from it.
VARIABLES agent

gvars == <<state, initial, last>>
svars == <<engine, now, inv, visit>>
lvars == <<builder, example, agent>>
vars == <<state, initial, last, engine, now, inv, visit, builder, example, agent>>

-----------------------------------------------------------------------------
(* Bounds of the exploration.                                              *)

\* Largest number of pits per player among the small start boards.
MaxPits == 2

\* Largest number of stones in one pit of a small start board.
MaxStones == 4

\* Largest number of stones on a small start board, all pits together.
MaxTotal == 6

\* Number of moves played from the default 6x4 start state.
MaxDefaultMoves == 2

\* Largest number of stones, pits and stores together, and largest ply of a
\* state that a caller's edit leaves.
MaxEditTotal == 2
MaxEditPly == 2

-----------------------------------------------------------------------------
(* Players, moves, options.                                                *)

One == "One"
Two == "Two"
Player == {One, Two}

\* impl Index<Player> for [T]: One is index 0, Two is index 1.
Idx(p) == IF p = One THEN 0 ELSE 1

\* The other player (the if/else of switch_turn and of the sowing loop).
Other(p) == IF p = One THEN Two ELSE One

Pit(n) == [kind |-> "Pit", n |-> n]
Swap == [kind |-> "Swap", n |-> 0]

None == [some |-> FALSE]
Some(s) == [some |-> TRUE, val |-> s]

-----------------------------------------------------------------------------
(* GameState and its accessors.                                            *)

GameState(board, stores, ply, current_turn, player2_moved) ==
    [board |-> board, stores |-> stores, ply |-> ply,
     current_turn |-> current_turn, player2_moved |-> player2_moved]

\* GameState::<6>::default(): six pits of four stones, empty stores, ply 1.
DefaultState ==
    GameState([p \in 0..1 |-> [j \in 0..5 |-> 4]], [p \in 0..1 |-> 0], 1, One, FALSE)

\* Mancala::pits: the length of row 0.
pits(s) == Cardinality(DOMAIN s.board[0])

RECURSIVE SumUpTo(_, _)
SumUpTo(row, k) == IF k = 0 THEN 0 ELSE row[k - 1] + SumUpTo(row, k - 1)

\* row.iter().sum()
RowSum(row) == SumUpTo(row, Cardinality(DOMAIN row))

\* Every stone of the state: both rows and both stores.
Total(s) == RowSum(s.board[0]) + RowSum(s.board[1]) + s.stores[0] + s.stores[1]

is_over(s) ==
    \A player \in 0..1 : \A pit \in DOMAIN s.board[player] : s.board[player][pit] = 0

score(s, player) == s.stores[Idx(player)]

\* enum GameOutcome
Winner(p) == [kind |-> "Winner", player |-> p]
Tie == [kind |-> "Tie", player |-> "none"]
Ongoing == [kind |-> "Ongoing", player |-> "none"]

\* outcome giving Player One the game on equal scores.
outcome_ties_to_one(s) ==
    IF is_over(s)
      THEN IF score(s, One) >= score(s, Two) THEN Winner(One)
           ELSE IF score(s, Two) > score(s, One) THEN Winner(Two)
           ELSE Tie
      ELSE Ongoing

outcome(s) ==
    IF is_over(s)
      THEN IF score(s, One) > score(s, Two) THEN Winner(One)
           ELSE IF score(s, Two) > score(s, One) THEN Winner(Two)
           ELSE Tie
      ELSE Ongoing

\* swap_allowed without the test of whose turn it is.
swap_allowed_any_turn(s) == s.ply = 2

\* swap_allowed on every turn of Player 2 from the second ply on.
swap_allowed_from_second_ply(s) == s.current_turn = Two /\ s.ply >= 2

swap_allowed(s) == s.current_turn = Two /\ s.ply = 2

RECURSIVE AllPitMovesFrom(_, _)
\* PitMovesFrom without the test that the pit holds stones.
AllPitMovesFrom(s, i) ==
    IF i >= pits(s) THEN << >> ELSE AllPitMovesFrom(s, i + 1) \o << Pit(i + 1) >>

RECURSIVE PitMovesFrom(_, _)
\* The enumerate() loop of valid_moves from index i on: each pit with
\* stones is inserted at the front of the list built so far.
PitMovesFrom(s, i) ==
    IF i >= pits(s) THEN << >>
    ELSE PitMovesFrom(s, i + 1) \o
         (IF s.board[Idx(s.current_turn)][i] > 0 THEN << Pit(i + 1) >> ELSE << >>)

valid_moves(s) ==
    PitMovesFrom(s, 0) \o (IF swap_allowed(s) THEN << Swap >> ELSE << >>)

InSeq(x, sq) == \E k \in 1..Len(sq) : sq[k] = x

switch_turn(s) == [s EXCEPT !.current_turn = Other(s.current_turn)]

\* rotate_board exchanging the rows only.
rotate_rows_only(s) == [s EXCEPT !.board = [p \in 0..1 |-> s.board[1 - p]]]

rotate_board(s) ==
    [s EXCEPT !.board = [p \in 0..1 |-> s.board[1 - p]],
              !.stores = [p \in 0..1 |-> s.stores[1 - p]]]

-----------------------------------------------------------------------------
(* make_move.  A call works on a frame: self is the state the caller      *)
(* holds (borrowed immutably), new_state the clone the call mutates.  The  *)
(* sowing loop carries its locals side, pit, i and go_again; sown keeps    *)
(* new_state as it was at the capture test of the latest iteration, which  *)
(* after the loop is the board with every stone sown and nothing captured. *)

\* let mut new_state = self.clone();
Frame(self) ==
    [self |-> self, new_state |-> self, side |-> self.current_turn, pit |-> 0,
     i |-> 0, go_again |-> FALSE, sown |-> self]

\* The Swap branch of make_move.
SwapBranch(fr) ==
    IF ~swap_allowed(fr.new_state) THEN [self |-> fr.self, result |-> None]
    ELSE LET rotated == rotate_board(fr.new_state)
             switched == switch_turn(rotated)
         IN [self |-> fr.self,
             result |-> Some([switched EXCEPT !.ply = @ + 1])]

\* TakeStones emptying the pit of the caller's state too (a call that works
\* on self instead of on the clone).
TakeStonesInPlace(fr, pit) ==
    LET side == fr.new_state.current_turn
    IN [fr EXCEPT !.new_state.board[Idx(side)][pit - 1] = 0,
                  !.self.board[Idx(side)][pit - 1] = 0,
                  !.side = side, !.pit = pit]

\* TakeStones starting the walk at the picked pit itself.
TakeStonesStartAtSource(fr, pit) ==
    LET side == fr.new_state.current_turn
    IN [fr EXCEPT !.new_state.board[Idx(side)][pit - 1] = 0,
                  !.side = side, !.pit = pit - 1]

\* Picking up the stones of pit `pit` (1-based) of the mover's side:
\* the pit of new_state is emptied, side and pit are initialised.
TakeStones(fr, pit) ==
    LET side == fr.new_state.current_turn
    IN [fr EXCEPT !.new_state.board[Idx(side)][pit - 1] = 0,
                  !.side = side, !.pit = pit]

\* Place setting go_again at every stone put into the store, last or not.
PlaceAlwaysAgain(v, last_stone) ==
    IF v.pit # pits(v.new_state)
      THEN [v EXCEPT !.new_state.board[Idx(v.side)][v.pit] = @ + 1]
      ELSE LET add_to_store == v.side = v.self.current_turn
               stored == IF add_to_store
                           THEN [v EXCEPT !.new_state.stores[Idx(v.side)] = @ + 1,
                                          !.go_again = TRUE]
                           ELSE v
               turned == [stored EXCEPT !.side = Other(v.side), !.pit = 0]
           IN IF ~add_to_store
                THEN [turned EXCEPT !.new_state.board[Idx(turned.side)][0] = @ + 1]
                ELSE IF ~last_stone
                  THEN [turned EXCEPT !.new_state.board[Idx(turned.side)][0] = @ + 1,
                                      !.i = @ + 1]
                  ELSE turned

\* Place putting a stone into whichever store the walk passes.
PlaceInEitherStore(v, last_stone) ==
    IF v.pit # pits(v.new_state)
      THEN [v EXCEPT !.new_state.board[Idx(v.side)][v.pit] = @ + 1]
      ELSE LET stored == [v EXCEPT !.new_state.stores[Idx(v.side)] = @ + 1,
                                   !.go_again = last_stone /\ v.side = v.self.current_turn]
               turned == [stored EXCEPT !.side = Other(v.side), !.pit = 0]
           IN IF ~last_stone
                THEN [turned EXCEPT !.new_state.board[Idx(turned.side)][0] = @ + 1,
                                    !.i = @ + 1]
                ELSE turned

\* The placement part of one loop iteration (the if/else on pit != pits).
Place(v, last_stone) ==
    IF v.pit # pits(v.new_state)
      THEN [v EXCEPT !.new_state.board[Idx(v.side)][v.pit] = @ + 1]
      ELSE LET add_to_store == v.side = v.self.current_turn
               stored == IF add_to_store
                           THEN [v EXCEPT !.new_state.stores[Idx(v.side)] = @ + 1,
                                          !.go_again = last_stone]
                           ELSE v
               turned == [stored EXCEPT !.side = Other(v.side), !.pit = 0]
           IN IF ~add_to_store
                THEN [turned EXCEPT !.new_state.board[Idx(turned.side)][0] = @ + 1]
                ELSE IF ~last_stone
                  THEN [turned EXCEPT !.new_state.board[Idx(turned.side)][0] = @ + 1,
                                      !.i = @ + 1]
                  ELSE turned

\* Capture taking the opponent's pit of the same index instead of the
\* opposite one.
CaptureSameIndex(v, last_stone) ==
    IF last_stone
       /\ v.side = v.new_state.current_turn
       /\ v.new_state.board[Idx(v.side)][v.pit] = 1
      THEN LET b == v.new_state.board
               gain == b[0][v.pit] + b[1][v.pit]
           IN [v EXCEPT !.new_state.stores[Idx(v.side)] = @ + gain,
                        !.new_state.board[0][v.pit] = 0,
                        !.new_state.board[1][v.pit] = 0]
      ELSE v

\* Capture that leaves the opponent's stones in their pit after counting
\* them.
CaptureKeepsOpposite(v, last_stone) ==
    IF last_stone
       /\ v.side = v.new_state.current_turn
       /\ v.new_state.board[Idx(v.side)][v.pit] = 1
      THEN LET n == pits(v.new_state)
               to_capture == IF v.side = One
                               THEN << v.pit, n - v.pit - 1 >>
                               ELSE << n - v.pit - 1, v.pit >>
               b == v.new_state.board
               gain == b[0][to_capture[1]] + b[1][to_capture[2]]
           IN [v EXCEPT !.new_state.stores[Idx(v.side)] = @ + gain,
                        !.new_state.board[Idx(v.side)][v.pit] = 0]
      ELSE v

\* Capture whenever the last stone lands on the mover's side, whatever the
\* pit holds.
CaptureAnyOwnPit(v, last_stone) ==
    IF last_stone /\ v.side = v.new_state.current_turn
      THEN LET n == pits(v.new_state)
               to_capture == IF v.side = One
                               THEN << v.pit, n - v.pit - 1 >>
                               ELSE << n - v.pit - 1, v.pit >>
               b == v.new_state.board
               gain == b[0][to_capture[1]] + b[1][to_capture[2]]
           IN [v EXCEPT !.new_state.stores[Idx(v.side)] = @ + gain,
                        !.new_state.board[0][to_capture[1]] = 0,
                        !.new_state.board[1][to_capture[2]] = 0]
      ELSE v

\* The capture part of one loop iteration.
Capture(v, last_stone) ==
    IF last_stone
       /\ v.side = v.new_state.current_turn
       /\ v.new_state.board[Idx(v.side)][v.pit] = 1
      THEN LET n == pits(v.new_state)
               to_capture == IF v.side = One
                               THEN << v.pit, n - v.pit - 1 >>
                               ELSE << n - v.pit - 1, v.pit >>
               b == v.new_state.board
               gain == b[0][to_capture[1]] + b[1][to_capture[2]]
           IN [v EXCEPT !.new_state.stores[Idx(v.side)] = @ + gain,
                        !.new_state.board[0][to_capture[1]] = 0,
                        !.new_state.board[1][to_capture[2]] = 0]
      ELSE v

\* One iteration of `while i < stones`.
SowStep(v, stones) ==
    LET last_stone == v.i = stones - 1
        placed == Place(v, last_stone)
        seen == [placed EXCEPT !.sown = placed.new_state]
        captured == Capture(seen, last_stone)
    IN [captured EXCEPT !.pit = @ + 1, !.i = @ + 1]

\* A loop that stops one stone short.
RECURSIVE SowLoopOneShort(_, _)
SowLoopOneShort(v, stones) ==
    IF v.i < stones - 1 THEN SowLoopOneShort(SowStep(v, stones), stones) ELSE v

RECURSIVE SowLoop(_, _)
SowLoop(v, stones) == IF v.i < stones THEN SowLoop(SowStep(v, stones), stones) ELSE v

\* final_stone_recipient naming the player whose row is empty.
final_stone_recipient_same(s) ==
    IF RowSum(s.board[0]) = 0 THEN Some(0)
    ELSE IF RowSum(s.board[1]) = 0 THEN Some(1)
    ELSE None

\* Detect completed game: who receives the stones left on the board.
final_stone_recipient(s) ==
    IF RowSum(s.board[0]) = 0 THEN Some(1)
    ELSE IF RowSum(s.board[1]) = 0 THEN Some(0)
    ELSE None

\* No sweep at all.
SweepSkipped(s) == s

\* A sweep that overwrites the store with the row's stones.
SweepReplacesStore(s) ==
    LET r == final_stone_recipient(s)
    IN IF r.some
         THEN [s EXCEPT !.stores[r.val] = RowSum(s.board[r.val]),
                        !.board[r.val] = [j \in DOMAIN s.board[r.val] |-> 0]]
         ELSE s

\* If the game is finished, the player with stones on their side takes them.
Sweep(s) ==
    LET r == final_stone_recipient(s)
    IN IF r.some
         THEN [s EXCEPT !.stores[r.val] = @ + RowSum(s.board[r.val]),
                        !.board[r.val] = [j \in DOMAIN s.board[r.val] |-> 0]]
         ELSE s

\* FinishMove counting the ply only when the turn passes.
FinishMoveNoPlyOnBonus(s, go_again) ==
    IF ~go_again THEN [switch_turn(s) EXCEPT !.ply = @ + 1] ELSE s

\* The end of make_move: the turn passes unless the mover goes again, and
\* the ply is counted.
FinishMove(s, go_again) ==
    LET t == IF ~go_again THEN switch_turn(s) ELSE s
    IN [t EXCEPT !.ply = @ + 1]

\* The Pit branch of make_move.
PitBranch(fr, pit) ==
    IF pit < 1 \/ pit > pits(fr.new_state)
      THEN [self |-> fr.self, result |-> None]
      ELSE LET stones == fr.new_state.board[Idx(fr.new_state.current_turn)][pit - 1]
               taken == TakeStones(fr, pit)
           IN IF stones = 0
                THEN [self |-> taken.self, result |-> None]
                ELSE LET v == SowLoop(taken, stones)
                     IN [self |-> v.self,
                         result |-> Some(FinishMove(Sweep(v.new_state), v.go_again)),
                         stones |-> stones,
                         sown |-> v.sown,
                         looped |-> v.new_state,
                         go_again |-> v.go_again]

\* make_move(&self, selection) -> Option<Self>, together with the state the
\* caller still holds when the call returns.
make_move(self, selection) ==
    IF selection.kind = "Swap"
      THEN SwapBranch(Frame(self))
      ELSE PitBranch(Frame(self), selection.n)

make_move_pit(self, pit) == make_move(self, Pit(pit))

make_move_swap(self) == make_move(self, Swap)

-----------------------------------------------------------------------------
(* The search engine (src/src/minimax/algorithm.rs, builder.rs).           *)
(* Utilities are f32 in the code; every utility of the model is a small    *)
(* whole number, and the two infinities are numbers beyond all of them.    *)

NEG_INFINITY == -1000000
INFINITY == 1000000

\* The default evaluator and heuristic of the builder: the point
\* differential seen from player p.
store_differential(s, p) == score(s, p) - score(s, Other(p))

\* A caller-supplied heuristic (a StateEvalFn): the differential of the
\* stones still on the board.
row_differential(s, p) == RowSum(s.board[Idx(p)]) - RowSum(s.board[Idx(Other(p))])

\* Calling a StateEvalFn value.
Apply(f, s, p) ==
    IF f = "store_differential" THEN store_differential(s, p) ELSE row_differential(s, p)

RECURSIVE OrderedPitsAscending(_, _)
\* A move orderer loop that appends each pit instead of inserting it at
\* the front.
OrderedPitsAscending(s, i) ==
    IF i >= pits(s) THEN << >>
    ELSE (IF s.board[Idx(s.current_turn)][i] > 0 THEN << Pit(i + 1) >> ELSE << >>)
         \o OrderedPitsAscending(s, i + 1)

\* The default move orderer of the builder.
RECURSIVE OrderedPitsFrom(_, _)
OrderedPitsFrom(s, i) ==
    IF i >= pits(s) THEN << >>
    ELSE OrderedPitsFrom(s, i + 1) \o
         (IF s.board[Idx(s.current_turn)][i] > 0 THEN << Pit(i + 1) >> ELSE << >>)

default_move_orderer(s) ==
    OrderedPitsFrom(s, 0) \o (IF swap_allowed(s) THEN << Swap >> ELSE << >>)

\* MinimaxBuilder::default.  The three function values are named; the
\* move orderers a caller can supply are the default closure and
\* Mancala::valid_moves.
DefaultBuilder ==
    [optimize_for |-> One, max_depth |-> Some(12), max_time |-> None,
     move_orderer |-> "default_move_orderer",
     evaluator |-> "store_differential", heuristic |-> "store_differential"]

\* MinimaxBuilder::new
new == DefaultBuilder

\* The setters of the builder.
optimize_for(b, p) == [b EXCEPT !.optimize_for = p]
\* A max_depth setter that writes the time limit.
max_depth_sets_time(b, depth) == [b EXCEPT !.max_time = depth]
max_depth(b, depth) == [b EXCEPT !.max_depth = depth]
max_time(b, time) == [b EXCEPT !.max_time = time]
move_orderer(b, o) == [b EXCEPT !.move_orderer = o]
evaluator(b, e) == [b EXCEPT !.evaluator = e]
heuristic(b, h) == [b EXCEPT !.heuristic = h]

\* MinimaxBuilder::build: the configuration with start_time unset.
build(b) ==
    [optimize_for |-> b.optimize_for, max_depth |-> b.max_depth, max_time |-> b.max_time,
     move_orderer |-> b.move_orderer,
     evaluator |-> b.evaluator, heuristic |-> b.heuristic, start_time |-> None]

\* Calling a MoveOrderFn value.
ApplyOrder(o, s) == IF o = "default_move_orderer" THEN default_move_orderer(s) ELSE valid_moves(s)

order_moves(e, s) == ApplyOrder(e.move_orderer, s)

evaluate(e, s) == Apply(e.evaluator, s, e.optimize_for)

get_heuristic(e, s) == Apply(e.heuristic, s, e.optimize_for)

\* A time test that lets the search run one tick longer.
time_exceeded_late(e, clock) ==
    IF e.start_time.some /\ e.max_time.some
      THEN clock - e.start_time.val > e.max_time.val
      ELSE FALSE

\* Instant::now() - start >= max, when both are set.
time_exceeded(e, clock) ==
    IF e.start_time.some /\ e.max_time.some
      THEN clock - e.start_time.val >= e.max_time.val
      ELSE FALSE

\* A depth test that never stops the search.
depth_reached_never(e, depth) == e.max_depth.some /\ depth < 0

\* A depth test that lets the search go one level deeper.
depth_reached_late(e, depth) == e.max_depth.some /\ depth > e.max_depth.val

\* self.max_depth.is_some_and(|d| depth >= d)
depth_reached(e, depth) == e.max_depth.some /\ depth >= e.max_depth.val

\* An activation that passes its own depth on to its callees.
ActivationSameDepth(fn, s, alpha, beta, depth, e) ==
    [fn |-> fn, state |-> s, alpha |-> alpha, beta |-> beta, depth |-> depth,
     v |-> IF fn = "min" THEN INFINITY ELSE NEG_INFINITY,
     best_move |-> None, move_utils |-> << >>,
     moves |-> order_moves(e, s), next |-> 1, pruned |-> FALSE]

\* The locals of a max_value, min_value or max_value_all activation that
\* has got past its entry tests: depth is already depth + 1, next is the
\* position in the ordered moves of the move the loop is at.
Activation(fn, s, alpha, beta, depth, e) ==
    [fn |-> fn, state |-> s, alpha |-> alpha, beta |-> beta, depth |-> depth + 1,
     v |-> IF fn = "min" THEN INFINITY ELSE NEG_INFINITY,
     best_move |-> None, move_utils |-> << >>,
     moves |-> order_moves(e, s), next |-> 1, pruned |-> FALSE]

NoActivation == [fn |-> "none"]

\* An entry that tests the limits before it tests for the end of the game.
NodeEntryLimitFirst(e, clock, fn, s, alpha, beta, depth) ==
    IF ~e.start_time.some
      THEN [kind |-> "panic", value |-> 0, act |-> NoActivation]
    ELSE IF fn = "all"
      THEN IF is_over(s) \/ depth_reached(e, depth) \/ time_exceeded(e, clock)
             THEN [kind |-> "none", value |-> 0, act |-> NoActivation]
             ELSE [kind |-> "expanded", value |-> 0,
                   act |-> Activation(fn, s, alpha, beta, depth, e)]
    ELSE IF depth_reached(e, depth) \/ time_exceeded(e, clock)
      THEN [kind |-> "cutoff", value |-> get_heuristic(e, s), act |-> NoActivation]
    ELSE IF is_over(s)
      THEN [kind |-> "terminal", value |-> evaluate(e, s), act |-> NoActivation]
    ELSE [kind |-> "expanded", value |-> 0,
          act |-> Activation(fn, s, alpha, beta, depth, e)]

\* The assertion on start_time at the entry of a node has failed.
AssertionFailed == [kind |-> "panic", value |-> 0, act |-> NoActivation]

\* The entry of max_value, min_value and max_value_all after the assertion
\* on start_time: the terminal test, the limit test (time_exceeded reads
\* start_time again), and otherwise the set-up of the loop.
NodeTests(e, clock, fn, s, alpha, beta, depth) ==
    IF fn = "all"
      THEN IF is_over(s) \/ depth_reached(e, depth) \/ time_exceeded(e, clock)
             THEN [kind |-> "none", value |-> 0, act |-> NoActivation]
             ELSE [kind |-> "expanded", value |-> 0,
                   act |-> Activation(fn, s, alpha, beta, depth, e)]
    ELSE IF is_over(s)
      THEN [kind |-> "terminal", value |-> evaluate(e, s), act |-> NoActivation]
    ELSE IF depth_reached(e, depth) \/ time_exceeded(e, clock)
      THEN [kind |-> "cutoff", value |-> get_heuristic(e, s), act |-> NoActivation]
    ELSE [kind |-> "expanded", value |-> 0,
          act |-> Activation(fn, s, alpha, beta, depth, e)]

\* The entry of max_value, min_value (fn "max", "min") and max_value_all
\* (fn "all"): the assertion on start_time, the terminal test, the limit
\* test, and otherwise the set-up of the loop.
NodeEntry(e, clock, fn, s, alpha, beta, depth) ==
    IF ~e.start_time.some
      THEN AssertionFailed
      ELSE NodeTests(e, clock, fn, s, alpha, beta, depth)

\* A loop that always calls the opposite function, bonus turn or not.
ChildFnAlwaysFlips(a, new_state) == IF a.fn = "min" THEN "max" ELSE "min"

\* Which function the loop of activation a calls for the child new_state.
ChildFn(a, new_state) ==
    IF new_state.current_turn = a.state.current_turn
      THEN (IF a.fn = "min" THEN "min" ELSE "max")
      ELSE (IF a.fn = "min" THEN "max" ELSE "min")

\* The bounds the loop hands to the child.
ChildAlpha(a) == IF a.fn = "all" THEN NEG_INFINITY ELSE a.alpha
ChildBeta(a) == IF a.fn = "all" THEN INFINITY ELSE a.beta

\* A max_value loop that tests the value against alpha instead of beta.
MaxCombinePruneOnAlpha(a, m, v2) ==
    LET better == v2 > a.v
        v == IF better THEN v2 ELSE a.v
        alpha == IF better THEN (IF a.alpha > v THEN a.alpha ELSE v) ELSE a.alpha
    IN [a EXCEPT !.v = v,
                 !.best_move = IF better THEN Some(m) ELSE a.best_move,
                 !.alpha = alpha,
                 !.pruned = v >= alpha,
                 !.next = @ + 1]

\* A max_value loop in which a later move of equal value replaces the best.
MaxCombineLastWins(a, m, v2) ==
    LET better == v2 >= a.v
        v == IF better THEN v2 ELSE a.v
        alpha == IF better THEN (IF a.alpha > v THEN a.alpha ELSE v) ELSE a.alpha
    IN [a EXCEPT !.v = v,
                 !.best_move = IF better THEN Some(m) ELSE a.best_move,
                 !.alpha = alpha,
                 !.pruned = v >= a.beta,
                 !.next = @ + 1]

\* The rest of a max_value loop iteration once the child returned v2.
MaxCombine(a, m, v2) ==
    LET better == v2 > a.v
        v == IF better THEN v2 ELSE a.v
        alpha == IF better THEN (IF a.alpha > v THEN a.alpha ELSE v) ELSE a.alpha
    IN [a EXCEPT !.v = v,
                 !.best_move = IF better THEN Some(m) ELSE a.best_move,
                 !.alpha = alpha,
                 !.pruned = v >= a.beta,
                 !.next = @ + 1]

\* The rest of a min_value loop iteration once the child returned v2.
MinCombine(a, m, v2) ==
    LET better == v2 < a.v
        v == IF better THEN v2 ELSE a.v
        beta == IF better THEN (IF a.beta < v THEN a.beta ELSE v) ELSE a.beta
    IN [a EXCEPT !.v = v,
                 !.best_move = IF better THEN Some(m) ELSE a.best_move,
                 !.beta = beta,
                 !.pruned = v <= a.alpha,
                 !.next = @ + 1]

\* A max_value_all loop that lists a move only when it beats the last one
\* listed.
AllCombineImproving(a, m, utility) ==
    [a EXCEPT !.move_utils =
                  IF @ = << >> \/ utility > @[Len(@)].utility
                    THEN Append(@, [move |-> m, utility |-> utility])
                    ELSE @,
              !.next = @ + 1]

\* The rest of a max_value_all loop iteration: move_utils.push((m, utility)).
AllCombine(a, m, utility) ==
    [a EXCEPT !.move_utils = Append(@, [move |-> m, utility |-> utility]),
              !.next = @ + 1]

Combine(a, m, v2) ==
    IF a.fn = "max" THEN MaxCombine(a, m, v2)
    ELSE IF a.fn = "min" THEN MinCombine(a, m, v2)
    ELSE AllCombine(a, m, v2)

\* The loop of the activation is over: by pruning or at the end of the moves.
Finished(a) == a.pruned \/ a.next > Len(a.moves)

\* The loop was left by pruning with moves still untried.
Skips(a) == a.pruned /\ a.next <= Len(a.moves)

\* What a finished activation returns: (best_move, v), or Some(move_utils).
Returned(a) ==
    IF a.fn = "all"
      THEN [best_move |-> None, v |-> 0, all |-> Some(a.move_utils)]
      ELSE [best_move |-> a.best_move, v |-> a.v, all |-> None]

\* What a node that stopped at its entry returns.
LeafReturned(fn, entry) ==
    IF fn = "all"
      THEN [best_move |-> None, v |-> 0, all |-> None]
      ELSE [best_move |-> None, v |-> entry.value, all |-> None]

\* The first function a search call runs on its root.
RootFn(kind) == IF kind = "search_utility_all" THEN "all" ELSE "max"

\* What search_utility / search_utility_all hand back from what the root
\* returned.
Outcome(kind, ret) ==
    IF kind = "search_utility_all" THEN ret.all
    ELSE IF ret.best_move.some
      THEN Some([move |-> ret.best_move.val, utility |-> ret.v])
      ELSE None

\* Minimax::search: search_utility(state).map(|(m, _)| m)
search(result) == IF result.some THEN Some(result.val.move) ELSE None

-----------------------------------------------------------------------------
(* A search call as a machine: the call stack of max_value / min_value /   *)
(* max_value_all activations of one search_utility / search_utility_all    *)
(* call on the engine, advanced one node at a time, with the wall clock    *)
(* free to advance between nodes.                                          *)

Invocations == {1, 2}

Idle == [status |-> "idle"]

\* A call that has run  self.start_time.set(Some(Instant::now())).
Entered(kind, s) ==
    [status |-> "entered", kind |-> kind, root |-> s, stack |-> << >>,
     ret |-> LeafReturned("max", [value |-> 0]), result |-> None,
     fired |-> FALSE, at_fire |-> [best_move |-> None, v |-> NEG_INFINITY],
     cut |-> FALSE, root_late |-> FALSE,
     started |-> now, wrong_start |-> FALSE, asserted |-> FALSE]

Top(r) == r.stack[Len(r.stack)]
Pop(r) == SubSeq(r.stack, 1, Len(r.stack) - 1)

\* A loop that records the move its callee chose instead of the move it
\* tried itself.
DeliverCalleeMove(r, stack, val) ==
    IF stack = << >>
      THEN [r EXCEPT !.stack = stack, !.ret = val, !.status = "exiting"]
      ELSE LET a == stack[Len(stack)]
               m == IF val.best_move.some THEN val.best_move.val ELSE a.moves[a.next]
           IN [r EXCEPT !.status = "running",
                        !.stack = [stack EXCEPT ![Len(stack)] = Combine(a, m, val.v)]]

\* The value val comes back from a callee: to the loop of the activation
\* on top of the stack, or, from the root, to the search call itself.
Deliver(r, stack, val) ==
    IF stack = << >>
      THEN [r EXCEPT !.stack = stack, !.ret = val, !.status = "exiting"]
      ELSE LET a == stack[Len(stack)]
           IN [r EXCEPT !.status = "running",
                        !.stack = [stack EXCEPT ![Len(stack)] =
                                      Combine(a, a.moves[a.next], val.v)]]

\* The time test of a node entry came out true for the first time in this
\* call: remember what the root's loop had found by then.
Fire(r, entry, e, clock, s, depth) ==
    IF ~r.fired /\ entry.kind \in {"cutoff", "none"} /\ ~is_over(s)
       /\ ~depth_reached(e, depth) /\ time_exceeded(e, clock)
      THEN [r EXCEPT !.fired = TRUE,
                     !.at_fire = IF r.stack = << >>
                                   THEN [best_move |-> None, v |-> NEG_INFINITY]
                                   ELSE [best_move |-> r.stack[1].best_move,
                                         v |-> r.stack[1].v]]
      ELSE r

\* A node has been entered by call i.
Visited(i, fn, s, alpha, beta, depth, entry) ==
    [seen |-> TRUE, by |-> i, fn |-> fn, state |-> s, depth |-> depth,
     alpha |-> alpha, beta |-> beta,
     kind |-> entry.kind, value |-> entry.value,
     start_time |-> engine.start_time, at |-> now]

NoVisit == [seen |-> FALSE]

\* The callee (fn, s, alpha, beta, depth) is entered from the stack `stack`
\* and its entry comes out as tested.
EnterNodeAs(i, stack, fn, s, alpha, beta, depth, tested) ==
    \E entry \in { tested } :
    \E r \in { [Fire(inv[i], entry, engine, now, s, depth) EXCEPT
                   !.root_late = IF stack = << >> THEN time_exceeded(engine, now) ELSE @,
                   !.wrong_start = @ \/ (engine.start_time.some
                                           /\ engine.start_time.val # inv[i].started),
                   !.asserted = FALSE] } :
       /\ visit' = Visited(i, fn, s, alpha, beta, depth, entry)
       /\ inv' = [inv EXCEPT ![i] =
             IF entry.kind = "panic" THEN [r EXCEPT !.status = "panicked"]
             ELSE IF entry.kind = "expanded"
               THEN [r EXCEPT !.status = "running", !.stack = Append(stack, entry.act)]
             ELSE Deliver(r, stack, LeafReturned(fn, entry))]

\* The entry of the callee in one step: no other call on the engine acts
\* between its two reads of start_time.
EnterNode(i, stack, fn, s, alpha, beta, depth) ==
    EnterNodeAs(i, stack, fn, s, alpha, beta, depth,
                NodeEntry(engine, now, fn, s, alpha, beta, depth))

\* The entry of the callee in two steps, one for each read of start_time:
\* the assertion, and then the tests that follow it.
EnterNodeInSteps(i, stack, fn, s, alpha, beta, depth) ==
    IF inv[i].asserted
      THEN EnterNodeAs(i, stack, fn, s, alpha, beta, depth,
                       NodeTests(engine, now, fn, s, alpha, beta, depth))
    ELSE IF engine.start_time.some
      THEN /\ inv' = [inv EXCEPT ![i].asserted = TRUE]
           /\ UNCHANGED visit
    ELSE EnterNodeAs(i, stack, fn, s, alpha, beta, depth, AssertionFailed)

\* An entry that does not record the start time.
EnterNoStart(i, kind) ==
    /\ inv[i].status = "idle"
    /\ inv' = [inv EXCEPT ![i] = Entered(kind, state)]
    /\ UNCHANGED <<gvars, lvars, engine, now, visit>>

\* search_utility / search_utility_all, first statement.
Enter(i, kind) ==
    /\ inv[i].status = "idle"
    /\ engine' = [engine EXCEPT !.start_time = Some(now)]
    /\ inv' = [inv EXCEPT ![i] = Entered(kind, state)]
    /\ UNCHANGED <<gvars, lvars, now, visit>>

\* The call of max_value / max_value_all on the root.
RootVisit(i) ==
    /\ inv[i].status = "entered"
    /\ EnterNode(i, << >>, RootFn(inv[i].kind), inv[i].root, NEG_INFINITY, INFINITY, 0)
    /\ UNCHANGED <<gvars, lvars, engine, now>>

\* One iteration of the loop on top of the stack, up to and including the
\* entry of the callee:  state.make_move(m).unwrap()  and the recursive call.
Descend(i) ==
    /\ inv[i].status = "running"
    /\ ~Finished(Top(inv[i]))
    /\ \E a \in { Top(inv[i]) } :
       \E made \in { make_move(a.state, a.moves[a.next]).result } :
          IF ~made.some
            THEN /\ inv' = [inv EXCEPT ![i].status = "panicked"]
                 /\ UNCHANGED visit
            ELSE EnterNode(i, inv[i].stack, ChildFn(a, made.val), made.val,
                           ChildAlpha(a), ChildBeta(a), a.depth)
    /\ UNCHANGED <<gvars, lvars, engine, now>>

\* RootVisit and Descend of a call that shares the engine with another
\* call in flight: a step of the other call may fall between the two reads
\* of start_time of a node entry.
SharedRootVisit(i) ==
    /\ inv[i].status = "entered"
    /\ EnterNodeInSteps(i, << >>, RootFn(inv[i].kind), inv[i].root,
                        NEG_INFINITY, INFINITY, 0)
    /\ UNCHANGED <<gvars, lvars, engine, now>>

SharedDescend(i) ==
    /\ inv[i].status = "running"
    /\ ~Finished(Top(inv[i]))
    /\ \E a \in { Top(inv[i]) } :
       \E made \in { make_move(a.state, a.moves[a.next]).result } :
          IF ~made.some
            THEN /\ inv' = [inv EXCEPT ![i].status = "panicked"]
                 /\ UNCHANGED visit
            ELSE EnterNodeInSteps(i, inv[i].stack, ChildFn(a, made.val), made.val,
                                  ChildAlpha(a), ChildBeta(a), a.depth)
    /\ UNCHANGED <<gvars, lvars, engine, now>>

\* The activation on top of the stack returns.
Return(i) ==
    /\ inv[i].status = "running"
    /\ Finished(Top(inv[i]))
    /\ inv' = [inv EXCEPT ![i] =
          Deliver([inv[i] EXCEPT !.cut = @ \/ Skips(Top(inv[i]))],
                  Pop(inv[i]), Returned(Top(inv[i])))]
    /\ UNCHANGED <<gvars, lvars, engine, now, visit>>

\* An exit that leaves the start time in the engine.
ExitKeepsStart(i) ==
    /\ inv[i].status = "exiting"
    /\ inv' = [inv EXCEPT ![i].status = "returned",
                          ![i].result = Outcome(inv[i].kind, inv[i].ret)]
    /\ UNCHANGED <<gvars, lvars, engine, now, visit>>

\* search_utility / search_utility_all, from  self.start_time.set(None)  on.
Exit(i) ==
    /\ inv[i].status = "exiting"
    /\ engine' = [engine EXCEPT !.start_time = None]
    /\ inv' = [inv EXCEPT ![i].status = "returned",
                          ![i].result = Outcome(inv[i].kind, inv[i].ret)]
    /\ UNCHANGED <<gvars, lvars, now, visit>>

InFlight(i) == inv[i].status \in {"entered", "running", "exiting"}

\* The next step of call i enters a node.
AtEntry(i) ==
    \/ inv[i].status = "entered"
    \/ inv[i].status = "running" /\ ~Finished(Top(inv[i]))

\* Instant::now() moves on.  The clock is read at node entries only, so
\* time is let pass just before a node is entered; and once the budget of
\* the call in flight is used up, further time changes nothing.
Tick ==
    /\ \E i \in Invocations : AtEntry(i)
    /\ engine.max_time.some
    /\ engine.start_time.some
    /\ ~time_exceeded(engine, now)
    /\ now' = now + 1
    /\ UNCHANGED <<gvars, lvars, engine, inv, visit>>

-----------------------------------------------------------------------------
(* The driver: a game is set up, then moves are requested one at a time;  *)
(* an accepted move replaces the driver's state by the returned one, a     *)
(* rejected move leaves the driver with the state it had.                  *)

\* The small start boards: any filling of 1..MaxPits pits per player with
\* at most MaxStones stones per pit and MaxTotal stones in all.
SmallBoards ==
    { b \in UNION { [0..1 -> [0..(n - 1) -> 0..MaxStones]] : n \in 1..MaxPits } :
        RowSum(b[0]) + RowSum(b[1]) <= MaxTotal }

StartStates ==
    { GameState(b, [p \in 0..1 |-> 0], 1, t, FALSE) : b \in SmallBoards, t \in Player }
      \cup { DefaultState }

NoCall == [called |-> FALSE]

Call(self, selection, r) ==
    [called |-> TRUE, self_before |-> self, selection |-> selection, ret |-> r]

\* The fields a builder holds, and the builder MinimaxBuilder::new returns
\* with no setter called on it yet and no engine built from it.
Fields == { "optimize_for", "max_depth", "max_time", "move_orderer", "evaluator", "heuristic" }

NoBuilder ==
    [self |-> new, latest |-> [f \in Fields |-> None], built |-> FALSE, stale |-> FALSE]

\* No example is being converted.
NoExample == [made |-> FALSE]

\* No external agent is being asked for a move.
NoAgent == [status |-> "idle"]

Elsewhere == builder = NoBuilder /\ example = NoExample /\ agent = NoAgent

\* No engine is searching while the game alone is driven.
NoSearch ==
    /\ Elsewhere
    /\ engine = build(new)
    /\ now = 0
    /\ inv = [i \in Invocations |-> Idle]
    /\ visit = NoVisit

Init ==
    /\ initial \in StartStates
    /\ state = initial
    /\ last = NoCall
    /\ NoSearch

\* The loop of the driver goes on while the game is not over.
MayPlay == ~is_over(state)

\* The default game is explored for its first MaxDefaultMoves moves only.
Explored == initial = DefaultState => state.ply <= MaxDefaultMoves

Played(selection, r) ==
    /\ last' = Call(state, selection, r)
    /\ state' = IF r.result.some THEN r.result.val ELSE r.self
    /\ UNCHANGED <<initial, svars, lvars>>

PlayPit ==
    /\ MayPlay /\ Explored
    /\ \E n \in 0..(pits(state) + 1) : Played(Pit(n), make_move_pit(state, n))

PlaySwap ==
    /\ MayPlay /\ Explored
    /\ Played(Swap, make_move_swap(state))

\* The moves of the driver's loop.
NextPlay == PlayPit \/ PlaySwap

\* A caller edits the state it holds through the mutating methods of the
\* trait.  The edited state is a set-up state: play goes on from it as
\* from a start state.  Edits are explored into the states of at most
\* MaxEditTotal stones and a ply of at most MaxEditPly.
EditStates(ply, total) == ply <= MaxEditPly /\ total <= MaxEditTotal

Edited(s) ==
    /\ state' = s
    /\ initial' = s
    /\ last' = NoCall
    /\ UNCHANGED <<svars, lvars>>

\* Mancala::switch_turn
SwitchTurn ==
    /\ EditStates(state.ply, Total(state))
    /\ Edited(switch_turn(state))

\* Mancala::rotate_board
RotateBoard ==
    /\ EditStates(state.ply, Total(state))
    /\ Edited(rotate_board(state))

\* A write through Mancala::board_mut
BoardMut ==
    /\ state.ply <= MaxEditPly
    /\ LET total == Total(state)
       IN  \E r \in 0..1, j \in DOMAIN state.board[0], v \in 0..MaxEditTotal :
             /\ EditStates(state.ply, total - state.board[r][j] + v)
             /\ Edited([state EXCEPT !.board[r][j] = v])

\* A write through Mancala::stores_mut
StoresMut ==
    /\ state.ply <= MaxEditPly
    /\ LET total == Total(state)
       IN  \E p \in 0..1, v \in 0..MaxEditTotal :
             /\ EditStates(state.ply, total - state.stores[p] + v)
             /\ Edited([state EXCEPT !.stores[p] = v])

\* A write through Mancala::ply_mut
PlyMut ==
    /\ Total(state) <= MaxEditTotal
    /\ \E v \in 0..MaxEditPly : Edited([state EXCEPT !.ply = v])

\* A write through Mancala::current_turn_mut
CurrentTurnMut ==
    /\ EditStates(state.ply, Total(state))
    /\ \E t \in Player : Edited([state EXCEPT !.current_turn = t])

\* Mancala::set_player2_moved
SetPlayer2Moved ==
    /\ EditStates(state.ply, Total(state))
    /\ \E value \in BOOLEAN : Edited([state EXCEPT !.player2_moved = value])

NextEdit ==
    SwitchTurn \/ RotateBoard \/ BoardMut \/ StoresMut \/ PlyMut \/ CurrentTurnMut \/ SetPlayer2Moved

Next == NextPlay \/ NextEdit

Spec == Init /\ [][Next]_vars

\* A driver loop that keeps applying legal moves to a caller-supplied start
\* state of at most MaxTotal - 2 stones, either player to move, at ply 1 or
\* at ply 2, where a Swap may be legal, until the game is over: while a
\* legal move exists, one is made.
InitPlay ==
    /\ initial \in { GameState(b, [p \in 0..1 |-> 0], ply, t, FALSE) :
                        b \in SmallBoards, ply \in 1..2, t \in Player }
    /\ Total(initial) + 2 <= MaxTotal
    /\ state = initial
    /\ last = NoCall
    /\ NoSearch

\* The steps that make a move are the steps that change state, and one is
\* possible exactly when valid_moves lists a move; weak fairness of the
\* moves of the loop is written out with them for the pit moves.
FairPlay ==
    /\ InitPlay /\ [][NextPlay]_vars
    /\ ([]<>(~MayPlay \/ valid_moves(state) = << >>) \/ []<><<state' # state>>_vars)
    /\ WF_vars(PlaySwap /\ state' # state)

-----------------------------------------------------------------------------
(* The first move on caller-supplied boards on which the player to move    *)
(* holds all their stones in one pit, enough of them to sow up to MaxLaps  *)
(* times around the board.                                                 *)

MaxLaps == 2

\* GameState::from_arr with the stones of the mover in pit n.
LapStates ==
    { GameState([r \in 0..1 |-> [j \in 0..(N - 1) |->
                    IF r = Idx(t) THEN (IF j = n - 1 THEN s ELSE 0) ELSE c]],
                [p \in 0..1 |-> 0], 1, t, FALSE) :
        <<N, n, s>> \in { x \in (1..MaxPits) \X (1..MaxPits) \X (1..(MaxLaps * (2 * MaxPits + 1))) :
                            x[2] <= x[1] /\ x[3] <= MaxLaps * (2 * x[1] + 1) },
        c \in 0..1, t \in Player }

InitLaps ==
    /\ initial \in LapStates
    /\ state = initial
    /\ last = NoCall
    /\ NoSearch

\* The first move on the supplied board.
FirstPit == state.ply = initial.ply /\ PlayPit

FirstSwap == state.ply = initial.ply /\ PlaySwap

NextLaps == FirstPit \/ FirstSwap

SpecLaps == InitLaps /\ [][NextLaps]_vars

-----------------------------------------------------------------------------
(* The search driver: an engine is built, a game state is set up, and the  *)
(* engine is asked for the best move and its utility and then for the      *)
(* utilities of all moves of that state.                                   *)

MaxSearchPits == 2
MaxSearchTotal == 3
MaxDepth == 2
MaxTime == 1

\* The boards searched: 1..MaxSearchPits pits per player and at most
\* MaxSearchTotal stones in all.
SearchBoards ==
    { b \in UNION { [0..1 -> [0..(n - 1) -> 0..MaxSearchTotal]] : n \in 1..MaxSearchPits } :
        RowSum(b[0]) + RowSum(b[1]) <= MaxSearchTotal }

\* The states searched, as GameState::from_arr makes them: Player 1 to
\* move on the first ply, or Player 2 to move on the second.
SearchRoots ==
    { GameState(b, [p \in 0..1 |-> 0], tp[2], tp[1], FALSE) :
        b \in SearchBoards, tp \in { <<One, 1>>, <<Two, 2>> } }

Limit(n) == { None } \cup { Some(k) : k \in 0..n }

Heuristics == { "store_differential", "row_differential" }

\* The engines built: with a depth limit or none and no time limit, for
\* either player; and with a time limit, alone or with the largest depth
\* limit, for Player 1.
Engines ==
    { build(heuristic(max_depth(optimize_for(new, p), d), h)) :
        p \in Player, d \in Limit(MaxDepth), h \in Heuristics }
    \cup
    { build(heuristic(max_time(max_depth(new, d), Some(t)), "row_differential")) :
        d \in { None, Some(MaxDepth) }, t \in 0..MaxTime }

Idles == [i \in Invocations |-> Idle]

InitSearch ==
    /\ initial \in SearchRoots
    /\ state = initial
    /\ last = NoCall
    /\ engine \in Engines
    /\ now = 0
    /\ inv = Idles
    /\ visit = NoVisit
    /\ Elsewhere

\* The calls are made one after the other: search_utility, and once it has
\* returned, search_utility_all.
MayEnter(i) == \A j \in Invocations : j < i => inv[j].status = "returned"

SearchUtility == MayEnter(1) /\ Enter(1, "search_utility")

SearchUtilityAll == MayEnter(2) /\ Enter(2, "search_utility_all")

Visit == \E i \in Invocations : RootVisit(i)

Expand == \E i \in Invocations : Descend(i)

Unwind == \E i \in Invocations : Return(i)

Leave == \E i \in Invocations : Exit(i)

NextSearch == SearchUtility \/ SearchUtilityAll \/ Visit \/ Expand \/ Unwind \/ Leave \/ Tick

SpecSearch == InitSearch /\ [][NextSearch]_vars

Running == SearchUtility \/ SearchUtilityAll \/ Visit \/ Expand \/ Unwind \/ Leave

\* A step of Running is possible.
CanRun == \E i \in Invocations : InFlight(i) \/ (inv[i].status = "idle" /\ MayEnter(i))

\* The calls run on one thread that is never suspended for good, and the
\* wall clock keeps moving: weak fairness of Running and of Tick.  The
\* steps of Running are the steps that change inv, and one is possible
\* exactly when CanRun holds, so WF_vars(Running) is written out with them.
\* The fair specification starts from the states with Player 1 to move, for the
\* engines of Player 1 whose heuristic differs from the evaluator.
InitFair ==
    /\ InitSearch
    /\ state.current_turn = One
    /\ engine.optimize_for = One
    /\ engine.heuristic = "row_differential"

FairSearch ==
    /\ InitFair /\ [][NextSearch]_vars
    /\ ([]<>(~CanRun) \/ []<><<inv' # inv>>_vars)
    /\ WF_vars(Tick)

-----------------------------------------------------------------------------
(* One engine used by two search calls whose steps interleave: each call   *)
(* may be entered at any time, also while the other is in flight (a second *)
(* thread holding the same engine, or a call made from within a callback   *)
(* of the first).  A step of one call may fall between any two reads or    *)
(* writes of start_time of the other.                                      *)

SharedEngines ==
    { build(heuristic(max_time(max_depth(new, Some(1)), t), "row_differential")) :
        t \in { None, Some(MaxTime) } }

\* Two calls share an engine on a root of MaxSearchTotal stones.
InitShared ==
    /\ initial \in SearchRoots
    /\ initial.current_turn = One
    /\ Total(initial) = MaxSearchTotal
    /\ state = initial
    /\ last = NoCall
    /\ engine \in SharedEngines
    /\ now = 0
    /\ inv = Idles
    /\ visit = NoVisit
    /\ Elsewhere

SharedSearchUtility == Enter(1, "search_utility")

SharedSearchUtilityAll == Enter(2, "search_utility_all")

SharedVisit == \E i \in Invocations : SharedRootVisit(i)

SharedExpand == \E i \in Invocations : SharedDescend(i)

NextShared ==
    SharedSearchUtility \/ SharedSearchUtilityAll \/ SharedVisit \/ SharedExpand
        \/ Unwind \/ Leave \/ Tick

SpecShared == InitShared /\ [][NextShared]_vars

-----------------------------------------------------------------------------
(* A builder is created, its setters are called and engines are built     *)
(* from it in any order and any number of times.  latest records, per      *)
(* field, the argument of the latest setter call for it; built, that an    *)
(* engine was built; stale, that a setter was called since.                *)

DepthArgs == { None, Some(MaxDepth) }
TimeArgs == { None, Some(MaxTime) }
Orderers == { "default_move_orderer", "valid_moves" }

\* The states the built engine's evaluator and heuristic are applied to:
\* one stone in each pit and MaxStones stones in one of the stores.
ScoredStates ==
    { GameState([r \in 0..1 |-> [i \in 0..(MaxPits - 1) |-> 1]],
                [p \in 0..1 |-> IF p = q THEN MaxStones ELSE 0], 1, One, FALSE) :
        q \in 0..1 }

InitBuilder ==
    /\ initial \in ScoredStates
    /\ state = initial
    /\ last = NoCall
    /\ engine = build(new)
    /\ now = 0
    /\ inv = Idles
    /\ visit = NoVisit
    /\ Elsewhere

\* A setter call on the builder: the builder it returns replaces the one
\* held; an engine built before is kept as it was built.
Set(f, arg, b) ==
    /\ builder' = [builder EXCEPT !.self = b, !.latest[f] = Some(arg),
                                  !.stale = builder.built]
    /\ UNCHANGED <<gvars, svars, example, agent>>

OptimizeFor == \E p \in Player : Set("optimize_for", p, optimize_for(builder.self, p))

SetMaxDepth == \E d \in DepthArgs : Set("max_depth", d, max_depth(builder.self, d))

SetMaxTime == \E t \in TimeArgs : Set("max_time", t, max_time(builder.self, t))

SetMoveOrderer == \E o \in Orderers : Set("move_orderer", o, move_orderer(builder.self, o))

SetEvaluator == \E e \in Heuristics : Set("evaluator", e, evaluator(builder.self, e))

SetHeuristic == \E h \in Heuristics : Set("heuristic", h, heuristic(builder.self, h))

\* MinimaxBuilder::build: the engine built replaces the one held.
Build ==
    /\ engine' = build(builder.self)
    /\ builder' = [builder EXCEPT !.built = TRUE, !.stale = FALSE]
    /\ UNCHANGED <<gvars, now, inv, visit, example, agent>>

NextBuilder ==
    OptimizeFor \/ SetMaxDepth \/ SetMaxTime \/ SetMoveOrderer \/ SetEvaluator
        \/ SetHeuristic \/ Build

SpecBuilder == InitBuilder /\ [][NextBuilder]_vars

-----------------------------------------------------------------------------
(* The data set: an example is a state with the (move, utility) pairs of   *)
(* a search, converted to a flat record of f32 values and back.  An f32    *)
(* value is modelled by the number it holds.                               *)

\* The digits of the significand of an f32.
MANTISSA_DIGITS == 24

\* usize as f32: exact below 2^24, else the nearest multiple of the spacing
\* of the f32 values at that magnitude, ties to the even multiple.
RECURSIVE Granule(_)
Granule(n) == IF n < 2 ^ MANTISSA_DIGITS THEN 1 ELSE 2 * Granule(n \div 2)

AsF32(n) ==
    LET g == Granule(n)
        q == n \div g
        r == n % g
    IN  IF 2 * r < g THEN q * g
        ELSE IF 2 * r > g THEN (q + 1) * g
        ELSE IF q % 2 = 0 THEN q * g ELSE (q + 1) * g

\* f32 as usize: saturating at zero.
AsUsize(x) == IF x < 0 THEN 0 ELSE x

\* usize::from(Player) and its inverse.
PlayerIndex(p) == IF p = One THEN 1 ELSE 2
PlayerFrom(i) == IF i = 1 THEN One ELSE Two

\* usize::from(Move) and Move::from(usize): Swap is 0 and Pit(n) is n.
MoveIndex(m) == IF m.kind = "Swap" THEN 0 ELSE m.n
IndexMove(i) == IF i = 0 THEN Swap ELSE Pit(i)

\* (len - 5) / 3 on usize.  Below five the subtraction underflows: a build
\* with overflow checks panics, and one without wraps the difference to
\* 2^64 + len - 5, whose quotient is held here as its four digits in base
\* 2^16, the most significant first.
len_to_pits(len, overflow_checks) ==
    LET RECURSIVE Quotient(_, _)
        Quotient(digits, carry) ==
            IF digits = << >> THEN << >>
            ELSE LET x == carry * 65536 + Head(digits)
                 IN  << x \div 3 >> \o Quotient(Tail(digits), x % 3)
    IN  IF len >= 5 THEN (len - 5) \div 3
        ELSE IF overflow_checks THEN [panic |-> TRUE]
        ELSE [digits |-> Quotient(<< 65535, 65535, 65535, 65531 + len >>, 0)]

Pair(m, u) == [move |-> m, utility |-> u]

\* MancalaExample::new: a pair with negative infinity is appended for every
\* move index of the state that the pairs given do not have.
RECURSIVE expanded_utils(_, _, _)
expanded_utils(utilities, i, n) ==
    IF i > n THEN utilities
    ELSE expanded_utils(
            IF \A k \in 1..Len(utilities) : MoveIndex(utilities[k].move) # i
            THEN Append(utilities, Pair(IndexMove(i), NEG_INFINITY))
            ELSE utilities,
            i + 1, n)

MancalaExample(s, utilities) ==
    [state |-> s, utilities |-> expanded_utils(utilities, 0, pits(s))]

\* The utility slots of the record, filled in the order of the pairs.  A
\* pair whose move has no slot is an index out of bounds, a panic.
RECURSIVE utils(_, _, _)
utils(slots, utilities, k) ==
    IF k > Len(utilities) THEN slots
    ELSE IF MoveIndex(utilities[k].move) >= Len(slots) THEN [panic |-> TRUE]
    ELSE utils([slots EXCEPT ![MoveIndex(utilities[k].move) + 1] = utilities[k].utility],
               utilities, k + 1)

\* From<&MancalaExample<T>> for Vec<f32>
ExampleToVec(value) ==
    LET s == value.state
        n == pits(s)
        filled == utils([i \in 1..(n + 1) |-> NEG_INFINITY], value.utilities, 1)
    IN  IF filled = [panic |-> TRUE] THEN [panic |-> TRUE]
        ELSE << AsF32(s.stores[0]), AsF32(s.stores[1]) >>
             \o [i \in 1..n |-> AsF32(s.board[0][i - 1])]
             \o [i \in 1..n |-> AsF32(s.board[1][i - 1])]
             \o << PlayerIndex(s.current_turn), AsF32(s.ply),
                   IF s.player2_moved THEN 1 ELSE 0 >>
             \o filled

\* From<Vec<f32>> for MancalaExample<DynGameState>.  value is indexed from
\* one here, from zero in the source.  A vector of fewer than five values
\* panics in either build: on the subtraction with overflow checks, and
\* without on value[0], value[1] or the range that ends at 2 + n_pits, past
\* the end of every vector.  One of five panics on the range that starts at
\* 6 + 2 * n_pits.
VecToExample(value, overflow_checks) ==
    LET n_pits == len_to_pits(Len(value), overflow_checks)
    IN  IF Len(value) < 5 THEN [panic |-> TRUE]
        ELSE IF Len(value) < 6 + 2 * n_pits THEN [panic |-> TRUE]
        ELSE
        [state |->
            GameState([r \in 0..1 |-> [i \in 0..(n_pits - 1) |-> AsUsize(value[3 + r * n_pits + i])]],
                      [p \in 0..1 |-> AsUsize(value[p + 1])],
                      AsUsize(value[4 + 2 * n_pits]),
                      PlayerFrom(AsUsize(value[3 + 2 * n_pits])),
                      value[5 + 2 * n_pits] # 0),
         utilities |->
            << Pair(Swap, value[6 + 2 * n_pits]) >>
            \o [m \in 1..(Len(value) - (6 + 2 * n_pits)) |->
                   Pair(IndexMove(m), value[6 + 2 * n_pits + m])]]

\* The states examples are made of: the states searched, with stones in the
\* stores, few or more than an f32 counts exactly, and either value of
\* player2_moved.
ExampleStates ==
    { [s EXCEPT !.stores = st, !.player2_moved = moved] :
        s \in SearchRoots,
        st \in { [p \in 0..1 |-> 0], [p \in 0..1 |-> p + 1],
                 [p \in 0..1 |-> 2 ^ MANTISSA_DIGITS + 2 * p + 1] },
        moved \in BOOLEAN }

Utilities == { -1, 2 }

\* The vectors given to the decoder by a caller: up to MaxLen values, each
\* one of VecValues.
MaxLen == 6

VecValues == { 1, 2 }

\* The results of a search of s: pairs for some of the moves, the pits in
\* descending order and Swap last, as order_moves lists them.
RECURSIVE SearchResults(_)
SearchResults(i) ==
    IF i < 0 THEN { << >> }
    ELSE LET rest == SearchResults(i - 1)
         IN  rest \cup { << Pair(IndexMove(i), u) >> \o r : u \in Utilities, r \in rest }

InitData ==
    /\ initial \in ExampleStates
    /\ state = initial
    /\ last = NoCall
    /\ engine = build(new)
    /\ now = 0
    /\ inv = Idles
    /\ visit = NoVisit
    /\ builder = NoBuilder
    /\ example = NoExample
    /\ agent = NoAgent

\* MancalaExample::new, given the pairs of a search of the state or pairs
\* that end with one for a pit the state does not have.
NewExample ==
    /\ ~example.made
    /\ \E utilities \in SearchResults(pits(state))
                            \cup { r \o << Pair(Pit(pits(state) + 1), u) >> :
                                     r \in SearchResults(0), u \in Utilities } :
          example' = [made |-> TRUE, stage |-> "new", given |-> utilities,
                      self |-> MancalaExample(state, utilities)]
    /\ UNCHANGED <<gvars, svars, builder, agent>>

\* MancalaExample::make_vec
Encode ==
    /\ example.made /\ example.stage = "new"
    /\ LET vec == ExampleToVec(example.self)
       IN  example' =
               IF vec = [panic |-> TRUE]
               THEN [made |-> TRUE, stage |-> "panicked", at |-> "make_vec",
                     given |-> example.given, self |-> example.self]
               ELSE [made |-> TRUE, stage |-> "vec", given |-> example.given,
                     self |-> example.self, vec |-> vec]
    /\ UNCHANGED <<gvars, svars, builder, agent>>

\* MancalaExample::from, of the vector of an example.
Decode ==
    /\ example.made /\ example.stage = "vec"
    /\ \E overflow_checks \in BOOLEAN :
          LET back == VecToExample(example.vec, overflow_checks)
          IN  example' =
                  IF back = [panic |-> TRUE]
                  THEN [made |-> TRUE, stage |-> "panicked", at |-> "from",
                        vec |-> example.vec]
                  ELSE [made |-> TRUE, stage |-> "back", given |-> example.given,
                        self |-> example.self, vec |-> example.vec, back |-> back]
    /\ UNCHANGED <<gvars, svars, builder, agent>>

\* MancalaExample::from, of a vector a caller supplies: the call panics or
\* returns the example.
FromVec ==
    /\ ~example.made
    /\ \E len \in 0..MaxLen, x \in VecValues, overflow_checks \in BOOLEAN :
          LET value == [i \in 1..len |-> x]
              back == VecToExample(value, overflow_checks)
          IN  example' =
                  IF back = [panic |-> TRUE]
                  THEN [made |-> TRUE, stage |-> "panicked", at |-> "from",
                        vec |-> value]
                  ELSE [made |-> TRUE, stage |-> "from", vec |-> value, back |-> back]
    /\ UNCHANGED <<gvars, svars, builder, agent>>

NextData == NewExample \/ Encode \/ Decode \/ FromVec

SpecData == InitData /\ [][NextData]_vars

-----------------------------------------------------------------------------
(* The external agent: the board of the current ply is written to a file,  *)
(* and the agent's answer is read from the moves file of that ply.  The    *)
(* file is another process's: it appears, grows token by token and is      *)
(* removed while external_move_input reads it.                             *)

\* A token of the moves file: a number, or -1 for text that does not parse
\* as an unsigned number.
Tokens == -1..MaxSearchPits

\* The longest moves file written: one token per move of the widest board.
FileLen == MaxSearchPits + 1

\* The states an agent is asked about: every pit of the opponent holds a
\* stone, a pit of the mover holds one or none; Player 1 on the first ply
\* or Player 2 on the second.
AgentStates ==
    { GameState([r \in 0..1 |-> IF r = Idx(tp[1]) THEN row ELSE [j \in DOMAIN row |-> 1]],
                [p \in 0..1 |-> 0], tp[2], tp[1], FALSE) :
        row \in UNION { [0..(n - 1) -> 0..1] : n \in 1..MaxSearchPits },
        tp \in { <<One, 1>>, <<Two, 2>> } }

\* s.parse::<usize>() succeeds on every token of the file.
Parses(tokens) == \A k \in 1..Len(tokens) : tokens[k] >= 0

\* ExternalInterface::read_moves (Minimal) on a file that exists and is
\* read: the moves of its tokens, or a panic on a token that is no number.
read_moves(tokens) ==
    IF Parses(tokens)
    THEN [panic |-> FALSE, moves |-> [k \in 1..Len(tokens) |-> IndexMove(tokens[k])]]
    ELSE [panic |-> TRUE]

RECURSIVE FirstValid(_, _, _)
\* The loop of external_move_input over the moves read, from position k on:
\* the first move that valid_moves contains.
FirstValid(moves, s, k) ==
    IF k > Len(moves) THEN None
    ELSE IF InSeq(moves[k], valid_moves(s)) THEN Some(moves[k])
    ELSE FirstValid(moves, s, k + 1)

\* The first move read that is valid, whatever the number of moves read.
FirstValidOfAnyCount(moves, s) == [retry |-> FALSE, chosen |-> FirstValid(moves, s, 1)]

\* external_move_input on the moves read: read again unless pits + 1 moves
\* were read, else the first of them that is valid.
choose_move(moves, s) ==
    IF Len(moves) # pits(s) + 1
    THEN [retry |-> TRUE]
    ELSE [retry |-> FALSE, chosen |-> FirstValid(moves, s, 1)]

\* The call is in its reading loop: the moves file as it is now, what the
\* latest look at it found, and the tokens read from it if it was read and
\* has not changed since.
Waiting(file, lately, seen) ==
    [status |-> "waiting", file |-> file, lately |-> lately, seen |-> seen]

InitExternal ==
    /\ initial \in AgentStates
    /\ state = initial
    /\ last = NoCall
    /\ engine = build(new)
    /\ now = 0
    /\ inv = Idles
    /\ visit = NoVisit
    /\ builder = NoBuilder
    /\ example = NoExample
    /\ agent = Waiting(None, "nothing", << >>)

\* The agent creates the moves file, empty.
FileCreated ==
    /\ agent.status = "waiting" /\ ~agent.file.some
    /\ agent' = Waiting(Some(<< >>), "nothing", << >>)
    /\ UNCHANGED <<gvars, svars, builder, example>>

\* The agent writes one more token to the moves file.
TokenWritten ==
    /\ agent.status = "waiting" /\ agent.file.some
    /\ Len(agent.file.val) < FileLen
    /\ \E t \in Tokens :
          agent' = Waiting(Some(Append(agent.file.val, t)), "nothing", << >>)
    /\ UNCHANGED <<gvars, svars, builder, example>>

\* The agent removes the moves file.
FileRemoved ==
    /\ agent.status = "waiting" /\ agent.file.some
    /\ agent' = Waiting(None, "nothing", << >>)
    /\ UNCHANGED <<gvars, svars, builder, example>>

\* read_moves finds no file: it sleeps and looks again.
PollAbsent ==
    /\ agent.status = "waiting" /\ ~agent.file.some
    /\ agent' = Waiting(agent.file, "absent", << >>)
    /\ UNCHANGED <<gvars, svars, builder, example>>

\* read_moves finds the file but reading it fails: external_move_input
\* calls read_moves again.
ReadFails ==
    /\ agent.status = "waiting" /\ agent.file.some
    /\ agent' = Waiting(agent.file, "error", << >>)
    /\ UNCHANGED <<gvars, svars, builder, example>>

\* read_moves reads the file and external_move_input goes on with the
\* moves read: it panics, reads again, or returns the move chosen.
ReadMoves ==
    /\ agent.status = "waiting" /\ agent.file.some
    /\ LET tokens == agent.file.val
           r == read_moves(tokens)
           c == choose_move(r.moves, state)
       IN  agent' =
             IF r.panic
             THEN [status |-> "panicked", file |-> agent.file, lately |-> "read",
                   seen |-> tokens, at |-> "parse"]
             ELSE IF c.retry
             THEN Waiting(agent.file, "read", tokens)
             ELSE IF ~c.chosen.some
             THEN [status |-> "panicked", file |-> agent.file, lately |-> "read",
                   seen |-> tokens, at |-> "unwrap"]
             ELSE [status |-> "returned", file |-> agent.file, lately |-> "read",
                   seen |-> tokens, move |-> c.chosen.val]
    /\ UNCHANGED <<gvars, svars, builder, example>>

NextExternal ==
    FileCreated \/ TokenWritten \/ FileRemoved \/ PollAbsent \/ ReadFails \/ ReadMoves

SpecExternal == InitExternal /\ [][NextExternal]_vars

-----------------------------------------------------------------------------
(* What the latest call did.                                               *)

Accepted == last.called /\ last.ret.result.some
Rejected == last.called /\ ~last.ret.result.some
PitPlayed == Accepted /\ last.selection.kind = "Pit"
SwapPlayed == Accepted /\ last.selection.kind = "Swap"

\* The state the latest call was made on and the state it returned.
Pre == last.self_before
Post == last.ret.result.val

\* The mover of the latest call and the opponent, as row indices.
Mover == Idx(Pre.current_turn)
Opponent == 1 - Mover

\* The stones the latest Pit call picked up.
Picked == Pre.board[Mover][last.selection.n - 1]

\* Where the last stone of the latest Pit call lands, counting positions
\* around the board from the mover's pit 0: 0..N-1 are the mover's pits,
\* N is the mover's store, N+1..2N are the opponent's pits 0..N-1.
Landing == (last.selection.n - 1 + Picked) % (2 * pits(Pre) + 1)

\* Every move a caller can ask for in state s, legal or not.
Requests(s) == { Pit(n) : n \in 0..(pits(s) + 1) } \cup { Swap }

Row(values) == [j \in 0..(Len(values) - 1) |-> values[j + 1]]

-----------------------------------------------------------------------------
(* C1  Conservation: in every state reached from a start state by          *)
(* successful moves (Pit or Swap), the stones of both rows and both stores *)
(* add up to the start state's total (48 for the default game).            *)
C1_Conservation ==
    /\ Total(state) = Total(initial)
    /\ initial = DefaultState => Total(state) = 6 * 4 * 2

\* A capture has just moved stones from pits to a store, several moves in.
C1_Witness ==
    /\ PitPlayed
    /\ last.ret.looped # last.ret.sown
    /\ state.ply >= 3
    /\ Total(state) = Total(initial)

(* C2  Legality consistency: make_move(state, m) succeeds iff m is in      *)
(* valid_moves(state); Pit(n) is rejected exactly when n is outside 1..N   *)
(* or the mover's pit n is empty, Swap exactly when swap_allowed is false. *)
C2_LegalityConsistency ==
    /\ \A m \in Requests(state) :
          make_move(state, m).result.some <=> InSeq(m, valid_moves(state))
    /\ last.called =>
          /\ last.ret.result.some <=> InSeq(last.selection, valid_moves(Pre))
          /\ last.selection.kind = "Pit" =>
                (Rejected <=> \/ last.selection.n < 1
                              \/ last.selection.n > pits(Pre)
                              \/ Picked = 0)
          /\ last.selection.kind = "Swap" =>
                (Rejected <=> ~(Pre.current_turn = Two /\ Pre.ply = 2))

\* An in-range Pit was rejected because the pit was empty, in a state that
\* has other legal moves.
C2_Witness ==
    /\ Rejected
    /\ last.selection.kind = "Pit"
    /\ last.selection.n \in 1..pits(Pre)
    /\ Picked = 0
    /\ Len(valid_moves(state)) > 0
    /\ state.ply >= 2

(* C3  In every state where is_over holds, valid_moves is empty, so no     *)
(* move can be applied to a finished game.                                 *)
C3_NoMovesWhenOver ==
    is_over(state) =>
        /\ valid_moves(state) = << >>
        /\ \A m \in Requests(state) : ~make_move(state, m).result.some

(* C4  Bonus turn: after a successful Pit move the turn is unchanged iff   *)
(* the last sown stone landed in the mover's own store, and otherwise it   *)
(* is the other player's; from the default start Pit(3) gives row          *)
(* [4,4,0,5,5,5], stores [1,0], turn Player1, ply 2.                       *)
C4_BonusTurn ==
    PitPlayed =>
        /\ Post.current_turn = Pre.current_turn <=> Landing = pits(Pre)
        /\ Landing # pits(Pre) => Post.current_turn = Other(Pre.current_turn)
        /\ (Pre = DefaultState /\ last.selection = Pit(3)) =>
              /\ Post.board[0] = Row(<< 4, 4, 0, 5, 5, 5 >>)
              /\ Post.board[1] = Row(<< 4, 4, 4, 4, 4, 4 >>)
              /\ Post.stores = Row(<< 1, 0 >>)
              /\ Post.current_turn = One
              /\ Post.ply = 2

\* The opening move Pit(3) of the default game has been played.
C4_Witness ==
    /\ PitPlayed
    /\ Pre = DefaultState
    /\ last.selection = Pit(3)
    /\ state.current_turn = One

(* C5  Capture: when the last sown stone of a Pit move lands in a pit k of *)
(* the mover's own side that then holds exactly 1 stone, pit k and the     *)
(* opponent's pit N-1-k are both zeroed and the mover's store grows by 1   *)
(* plus what the opposite pit held; nothing else changes in the capture.   *)
C5_Capture ==
    (PitPlayed /\ Landing < pits(Pre) /\ last.ret.sown.board[Mover][Landing] = 1) =>
        LET k == Landing
            opp == pits(Pre) - 1 - k
            sown == last.ret.sown
            looped == last.ret.looped
        IN /\ looped.board[Mover][k] = 0
           /\ looped.board[Opponent][opp] = 0
           /\ looped.stores[Mover] = sown.stores[Mover] + 1 + sown.board[Opponent][opp]
           /\ looped.stores[Opponent] = sown.stores[Opponent]
           /\ \A j \in 0..(pits(Pre) - 1) :
                 /\ j # k => looped.board[Mover][j] = sown.board[Mover][j]
                 /\ j # opp => looped.board[Opponent][j] = sown.board[Opponent][j]
           /\ Post.board[Mover][k] = 0
           /\ Post.board[Opponent][opp] = 0
           /\ Post.stores[Mover] >= Pre.stores[Mover] + 1 + sown.board[Opponent][opp]

\* A capture of a non-empty opposite pit on a board of at least two pits.
C5_Witness ==
    /\ PitPlayed
    /\ pits(Pre) >= 2
    /\ Landing < pits(Pre)
    /\ last.ret.sown.board[Mover][Landing] = 1
    /\ last.ret.sown.board[Opponent][pits(Pre) - 1 - Landing] > 0
    /\ state.stores[Mover] >= 2

(* C6  Sweep: after the sowing and any capture of a Pit move, if either    *)
(* row sums to zero the other player's remaining row stones are all added  *)
(* to that other player's own store and that row is zeroed, so the         *)
(* resulting state satisfies is_over.                                      *)
C6_Sweep ==
    PitPlayed =>
        \A p \in 0..1 :
            RowSum(last.ret.looped.board[p]) = 0 =>
                /\ \A j \in 0..(pits(Pre) - 1) : Post.board[1 - p][j] = 0
                /\ Post.stores[1 - p] =
                      last.ret.looped.stores[1 - p] + RowSum(last.ret.looped.board[1 - p])
                /\ Post.stores[p] = last.ret.looped.stores[p]
                /\ is_over(Post)

\* The mover emptied their own row and the opponent swept a non-empty row.
C6_Witness ==
    /\ PitPlayed
    /\ RowSum(last.ret.looped.board[Mover]) = 0
    /\ RowSum(last.ret.looped.board[Opponent]) > 0
    /\ is_over(state)
    /\ state.stores[Opponent] >= RowSum(last.ret.looped.board[Opponent])

(* C7  As claimed: in the default start state Swap is not in valid_moves;  *)
(* after Player1's first move the state has ply 2 and turn Player2, and    *)
(* Swap is in valid_moves.                                                 *)
C7_SwapAfterFirstMove ==
    /\ state = DefaultState => ~InSeq(Swap, valid_moves(state))
    /\ (Accepted /\ Pre = DefaultState) =>
          /\ Post.ply = 2
          /\ Post.current_turn = Two
          /\ InSeq(Swap, valid_moves(Post))

(* C7  As amended: in the default start state Swap is not in valid_moves;  *)
(* after Player1's first move the state has ply 2; for every first move    *)
(* but Pit(3) the turn is Player2's and Swap is in valid_moves, and after  *)
(* Pit(3), which earns a bonus turn, the turn is still Player1's and Swap  *)
(* is not in valid_moves.                                                  *)
C7_SwapAfterFirstMoveUnlessBonus ==
    /\ state = DefaultState =>
          /\ ~InSeq(Swap, valid_moves(state))
          /\ ~make_move_swap(state).result.some
    /\ (Accepted /\ Pre = DefaultState) =>
          /\ Post.ply = 2
          /\ last.selection # Pit(3) =>
                /\ Post.current_turn = Two
                /\ InSeq(Swap, valid_moves(Post))
                /\ make_move_swap(Post).result.some
          /\ last.selection = Pit(3) =>
                /\ Post.current_turn = One
                /\ ~InSeq(Swap, valid_moves(Post))
                /\ ~make_move_swap(Post).result.some

\* Player1 opened the default game without a bonus turn: Player2 may swap.
C7_Witness ==
    /\ Accepted
    /\ Pre = DefaultState
    /\ last.selection # Pit(3)
    /\ state.current_turn = Two
    /\ InSeq(Swap, valid_moves(state))

(* C8  Swap: a successful Swap returns the input with rows[0]/rows[1] and  *)
(* stores[0]/stores[1] exchanged, the turn toggled and the ply one more;   *)
(* nothing else is changed.                                                *)
C8_Swap ==
    SwapPlayed =>
        /\ Post.board[0] = Pre.board[1]
        /\ Post.board[1] = Pre.board[0]
        /\ Post.stores[0] = Pre.stores[1]
        /\ Post.stores[1] = Pre.stores[0]
        /\ Post.current_turn = Other(Pre.current_turn)
        /\ Post.ply = Pre.ply + 1
        /\ Post.player2_moved = Pre.player2_moved
        /\ DOMAIN Post = DOMAIN Pre

\* A swap of a board whose two rows and two stores differ.
C8_Witness ==
    /\ SwapPlayed
    /\ Pre.board[0] # Pre.board[1]
    /\ Pre.stores[0] # Pre.stores[1]
    /\ state.current_turn = One

(* C9  Every successful make_move (Pit with or without bonus turn,         *)
(* capturing, game-ending, or Swap) returns a state whose ply is the input *)
(* ply plus 1; a rejected one leaves the ply; so the ply never falls below *)
(* the 1 it starts at.                                                     *)
C9_PlyIncrement ==
    /\ Accepted => Post.ply = Pre.ply + 1 /\ state.ply = Pre.ply + 1
    /\ Rejected => state.ply = Pre.ply
    /\ state.ply >= initial.ply
    /\ state.ply > initial.ply <=> state # initial

\* A bonus-turn move that also ended the game, after earlier moves.
C9_Witness ==
    /\ PitPlayed
    /\ Landing = pits(Pre)
    /\ is_over(state)
    /\ Pre.ply >= 2
    /\ state.ply = Pre.ply + 1

(* C10  make_move never changes the state it is called on: after a         *)
(* rejected call the caller's state is what it was (no pit zeroed, no      *)
(* ply or turn change), and after a successful call the caller's original  *)
(* is unchanged too, the result being a separate value.                    *)
C10_CallerStateUntouched ==
    last.called =>
        /\ last.ret.self = Pre
        /\ Rejected => state = Pre

\* A successful Pit call returned a new state and left the original alone.
C10_Witness ==
    /\ PitPlayed
    /\ Post # Pre
    /\ last.ret.self = Pre
    /\ Picked >= 2

(* C11  outcome(state) is Winner(p) iff is_over(state) and score(p) >       *)
(* score(other), Tie iff is_over(state) and the two scores are equal, and  *)
(* Ongoing iff not is_over(state).                                         *)
C11_Outcome ==
    LET finished == RowSum(state.board[0]) = 0 /\ RowSum(state.board[1]) = 0
    IN /\ \A p \in Player :
             outcome(state) = Winner(p) <=>
                 finished /\ state.stores[Idx(p)] > state.stores[Idx(Other(p))]
       /\ outcome(state) = Tie <=> finished /\ state.stores[0] = state.stores[1]
       /\ outcome(state) = Ongoing <=> ~finished
       /\ finished <=> is_over(state)

\* A game played to its end with equal, non-zero scores.
C11_Witness ==
    /\ PitPlayed
    /\ is_over(state)
    /\ state.stores[0] = state.stores[1]
    /\ state.stores[0] > 0
    /\ outcome(state) = Tie

-----------------------------------------------------------------------------
(* Search claims.                                                          *)

\* The call i has returned and no later call has been made.
Returns(i) ==
    /\ inv[i].status = "returned"
    /\ \A j \in Invocations : j > i => inv[j].status = "idle"

DepthOnly == ~engine.max_time.some

MaxOf(S) == CHOOSE x \in S : \A y \in S : y <= x
MinOf(S) == CHOOSE x \in S : \A y \in S : x <= y

\* Plain minimax: the value of state s for a node of role fn ("max" or
\* "min") at depth `depth`, every move tried, nothing pruned.
RECURSIVE plain_value(_, _, _, _)
plain_value(e, fn, s, depth) ==
    IF is_over(s) THEN evaluate(e, s)
    ELSE IF depth_reached(e, depth) THEN get_heuristic(e, s)
    ELSE LET moves == order_moves(e, s)
             child(k) == make_move(s, moves[k]).result.val
             role(k) == IF child(k).current_turn = s.current_turn
                          THEN fn
                          ELSE (IF fn = "max" THEN "min" ELSE "max")
             values == { plain_value(e, role(k), child(k), depth + 1) : k \in 1..Len(moves) }
         IN IF fn = "max"
              THEN (IF values = {} THEN NEG_INFINITY ELSE MaxOf(values))
              ELSE (IF values = {} THEN INFINITY ELSE MinOf(values))

(* C12  With only a depth limit, the utility search_utility's alpha-beta   *)
(* search returns for a state equals the utility plain unpruned minimax    *)
(* computes for it with the same evaluator, heuristic, depth cutoff and    *)
(* max/min role rule.                                                      *)
C12_AlphaBetaEqualsMinimax ==
    (Returns(1) /\ DepthOnly) =>
        /\ inv[1].ret.v = plain_value(engine, "max", inv[1].root, 0)
        /\ inv[1].result.some =>
              inv[1].result.val.utility = plain_value(engine, "max", inv[1].root, 0)

\* A search that pruned at least one loop has returned a move.
C12_Witness ==
    /\ Returns(1) /\ DepthOnly
    /\ inv[1].cut
    /\ inv[1].result.some
    /\ inv[1].result.val.utility = plain_value(engine, "max", inv[1].root, 0)

\* What Minimax::search hands back for call 1.
Searched == search(inv[1].result)

\* The budget was already used up when call i entered its root: the depth
\* limit is 0, or the time limit had passed by then.
BudgetGoneAtRoot(i) ==
    \/ engine.max_depth.some /\ engine.max_depth.val = 0
    \/ inv[i].root_late

(* C13 (as claimed)  search(state) returns None only if the state has no   *)
(* legal move (the game is already over); for every state with a legal     *)
(* move it returns Some move, whatever the configuration.  Stated for the  *)
(* states that are not over, where a legal move is a pit of the mover      *)
(* with stones in it or an allowed Swap.                                   *)
C13_NoneOnlyWithoutMoves ==
    (Returns(1) /\ ~is_over(inv[1].root) /\ valid_moves(inv[1].root) # << >>)
        => Searched.some

(* C13 (amended)  search(state) returns None exactly when the state is     *)
(* over, or the depth or time budget is already used up at the root (a     *)
(* depth limit of 0, or a time limit reached by the first node), or the    *)
(* move orderer offers no move; otherwise it returns one of the offered    *)
(* moves.                                                                  *)
C13_NoneIffOverOrNoBudgetOrNoMoves ==
    Returns(1) =>
        /\ ~Searched.some <=>
              \/ is_over(inv[1].root)
              \/ BudgetGoneAtRoot(1)
              \/ order_moves(engine, inv[1].root) = << >>
        /\ Searched.some => InSeq(Searched.val, order_moves(engine, inv[1].root))

\* A search of a state that is not over and has moves came back with None:
\* the depth limit is 0.
C13_Witness ==
    /\ Returns(1)
    /\ ~is_over(inv[1].root)
    /\ valid_moves(inv[1].root) # << >>
    /\ engine.max_depth.some /\ engine.max_depth.val = 0
    /\ ~Searched.some

\* The role and the state of the node the root's k-th legal move leads to.
RootChild(s, k) == make_move(s, valid_moves(s)[k]).result.val
RootChildFn(s, k) == IF RootChild(s, k).current_turn = s.current_turn THEN "max" ELSE "min"

(* C14  search_utility_all returns None if the root is over or the budget  *)
(* is used up at its entry; otherwise it returns exactly one (move,        *)
(* utility) pair per legal root move, in move-orderer order, every child   *)
(* being entered with alpha = -inf and beta = +inf, so that (with only a   *)
(* depth limit) each utility is the unpruned value of that child.          *)
C14_AllMovesFullWindow ==
    /\ Returns(2) =>
          LET s == inv[2].root
              res == inv[2].result
          IN IF is_over(s) \/ BudgetGoneAtRoot(2)
               THEN ~res.some
               ELSE /\ res.some
                    /\ Len(res.val) = Len(valid_moves(s))
                    /\ \A k \in 1..Len(res.val) :
                          /\ res.val[k].move = valid_moves(s)[k]
                          /\ DepthOnly =>
                                res.val[k].utility =
                                    plain_value(engine, RootChildFn(s, k), RootChild(s, k), 1)
    /\ (visit.seen /\ visit.by = 2 /\ visit.depth = 1) =>
          visit.alpha = NEG_INFINITY /\ visit.beta = INFINITY

\* All moves of a root are listed although the second is worse than the
\* first, on a root where search_utility pruned a loop.
C14_Witness ==
    /\ Returns(2) /\ DepthOnly
    /\ inv[2].result.some
    /\ Len(inv[2].result.val) >= 2
    /\ inv[2].result.val[2].utility < inv[2].result.val[1].utility
    /\ inv[1].cut

\* The utilities search_utility_all listed, and the first place of u in the list.
Listed == inv[2].result.val
ListedUtilities == { Listed[k].utility : k \in 1..Len(Listed) }
FirstWith(u) == CHOOSE k \in 1..Len(Listed) :
                    Listed[k].utility = u /\ \A j \in 1..(k - 1) : Listed[j].utility # u

(* C15  With only a depth limit, search_utility returns (m, u) where u is  *)
(* the greatest utility in the list search_utility_all returns for the     *)
(* same state and m is the first move of the list that attains u; a later  *)
(* move of equal value never replaces it.                                  *)
C15_FirstBestMove ==
    (Returns(2) /\ DepthOnly) =>
        /\ inv[1].result.some <=> (inv[2].result.some /\ Listed # << >>)
        /\ inv[1].result.some =>
              /\ inv[1].result.val.utility = MaxOf(ListedUtilities)
              /\ inv[1].result.val.move = Listed[FirstWith(MaxOf(ListedUtilities))].move

\* Two moves tie for the best utility and the first of them was returned.
C15_Witness ==
    /\ Returns(2) /\ DepthOnly
    /\ inv[1].result.some /\ inv[2].result.some
    /\ \E j, k \in 1..Len(Listed) :
          /\ j < k
          /\ Listed[j].utility = MaxOf(ListedUtilities)
          /\ Listed[k].utility = MaxOf(ListedUtilities)
          /\ inv[1].result.val.move = Listed[j].move

\* The latest node entered was an entry of max_value or min_value.
ValueNode == visit.seen /\ visit.fn \in {"max", "min"}

\* The store differential of s for the player the engine optimizes for.
Differential(s) ==
    s.stores[Idx(engine.optimize_for)] - s.stores[Idx(Other(engine.optimize_for))]

(* C16  A max_value / min_value node whose state is over returns the       *)
(* evaluator's value of the state for optimize_for and no move, also when  *)
(* the depth limit is reached or the time is up; the heuristic is never    *)
(* applied to a state that is over.                                        *)
C16_TerminalUsesEvaluator ==
    /\ (ValueNode /\ is_over(visit.state)) =>
          /\ visit.kind = "terminal"
          /\ visit.value = Differential(visit.state)
    /\ (ValueNode /\ visit.kind = "cutoff") => ~is_over(visit.state)
    /\ (Returns(1) /\ is_over(inv[1].root)) =>
          /\ ~inv[1].ret.best_move.some
          /\ inv[1].ret.v = Differential(inv[1].root)

\* A finished game is reached at the depth limit by an engine whose
\* heuristic would have valued it differently.
C16_Witness ==
    /\ ValueNode /\ is_over(visit.state)
    /\ engine.max_depth.some /\ visit.depth >= engine.max_depth.val
    /\ visit.depth >= 1
    /\ engine.heuristic = "row_differential"
    /\ visit.value = Differential(visit.state)
    /\ visit.value # row_differential(visit.state, engine.optimize_for)

\* The time limit of the engine had passed when the latest node was entered.
LateVisit ==
    /\ visit.seen /\ engine.max_time.some /\ visit.start_time.some
    /\ visit.at - visit.start_time.val >= engine.max_time.val

\* What bounds a search: with a depth limit no activation is deeper than
\* the limit; once the time limit has passed no node is expanded any more;
\* with neither limit every leaf is a finished game.
Bounded ==
    /\ \A i \in Invocations :
          (InFlight(i) /\ engine.max_depth.some) =>
              Len(inv[i].stack) <= engine.max_depth.val
    /\ LateVisit => visit.kind # "expanded"
    /\ (visit.seen /\ ~engine.max_depth.some /\ ~engine.max_time.some) =>
          visit.kind \in {"expanded", "terminal"} \/ (visit.kind = "none" /\ is_over(visit.state))

(* C17  Every search call terminates: with a depth limit (whatever the     *)
(* time limit) the recursion is never deeper than the limit; with a time   *)
(* limit alone and an advancing clock no node is expanded once the limit   *)
(* has passed; with neither limit the search ends only when every line of  *)
(* play has been followed to the end of the game.                          *)
C17_Terminates ==
    /\ [] Bounded
    /\ \A i \in Invocations : (InFlight(i) ~> inv[i].status = "returned")

\* A search without limits has followed a line of play to the end of the
\* game, four moves down, and returned.
C17_Witness ==
    /\ Returns(2)
    /\ ~engine.max_depth.some /\ ~engine.max_time.some
    /\ visit.seen /\ visit.depth >= 3 /\ visit.kind = "terminal"

\* The time test of call 1 fired below the root, and the call has returned.
TimedOutMidSearch == Returns(1) /\ inv[1].fired /\ ~inv[1].root_late

(* C18 (as claimed)  When the time budget elapses in the middle of a       *)
(* search, the move and utility delivered are the best ones the search had *)
(* found before the budget elapsed, at the point the check fired.          *)
C18_DeliversBestBeforeExpiry ==
    TimedOutMidSearch =>
        /\ inv[1].ret.best_move = inv[1].at_fire.best_move
        /\ inv[1].ret.v = inv[1].at_fire.v

(* C18 (amended)  Once the time budget has elapsed no node is expanded:    *)
(* every node entered from then on returns the evaluator's or heuristic's  *)
(* value of its own state, and the loops still running go through their    *)
(* remaining moves with these values.  The utility delivered is at least   *)
(* the best the root had found when the check fired, a move is delivered,  *)
(* and it differs from the root's best move at that point only if its      *)
(* utility is strictly greater.                                            *)
C18_DeliversAtLeastBestBeforeExpiry ==
    /\ (visit.seen /\ engine.max_time.some /\ visit.start_time.some
          /\ visit.at - visit.start_time.val >= engine.max_time.val)
         => visit.kind \in {"terminal", "cutoff", "none"}
    /\ TimedOutMidSearch =>
          /\ inv[1].ret.best_move.some
          /\ inv[1].ret.v >= inv[1].at_fire.v
          /\ inv[1].ret.v = inv[1].at_fire.v =>
                inv[1].ret.best_move = inv[1].at_fire.best_move

\* The budget ran out after the root had a best move, and a move tried
\* afterwards, valued by the heuristic alone, was delivered instead.
C18_Witness ==
    /\ TimedOutMidSearch
    /\ inv[1].at_fire.best_move.some
    /\ inv[1].ret.best_move.some
    /\ inv[1].ret.best_move.val # inv[1].at_fire.best_move.val
    /\ inv[1].ret.v > inv[1].at_fire.v

(* C19  start_time is unset after build, is set by the entry of every      *)
(* search call, is set at every node the call visits (the node-entry       *)
(* assertion never fails), and is unset again once the call has returned.  *)
C19_StartTimeLifecycle ==
    /\ engine.start_time.some <=> \E i \in Invocations : InFlight(i)
    /\ engine.start_time.some => engine.start_time.val <= now
    /\ visit.seen => (visit.start_time.some /\ visit.kind # "panic")
    /\ \A i \in Invocations : inv[i].status # "panicked"

\* A call that went at least two moves deep, with start_time set at the
\* node, has returned and start_time is unset.
C19_Witness ==
    /\ Returns(1)
    /\ visit.seen /\ visit.by = 1 /\ visit.depth >= 2
    /\ visit.start_time.some
    /\ ~engine.start_time.some

\* The other of the two calls.
OtherCall(i) == 3 - i

(* C20  One engine is not safe for two interleaved search calls: a call    *)
(* can enter a node with start_time unset (the node-entry assertion fails) *)
(* after the other call's exit cleared it, and can measure its budget from *)
(* the other call's start after the other call's entry overwrote it.       *)
(* Neither happens to a call that has the engine to itself.                *)
C20_SharedStartTimeHazard ==
    \A i \in Invocations :
        /\ inv[i].status = "panicked" => inv[OtherCall(i)].status = "returned"
        /\ (inv[i].status # "idle" /\ inv[i].wrong_start) =>
              /\ inv[OtherCall(i)].status # "idle"
              /\ inv[OtherCall(i)].started > inv[i].started

\* Call 1 has measured its budget from call 2's start, and has then failed
\* the node-entry assertion because call 2's exit cleared start_time.
C20_Witness ==
    /\ inv[1].status = "panicked"
    /\ inv[1].wrong_start
    /\ inv[2].status = "returned"
    /\ ~engine.start_time.some

-----------------------------------------------------------------------------
(* Further claims on the rules, the builder and the data set.              *)

\* The sequence lists pit moves in strictly descending pit number, then
\* Swap if at all.
DescendingThenSwap(moves) ==
    \A j, k \in 1..Len(moves) :
        j < k => /\ moves[j].kind = "Pit"
                 /\ (moves[k].kind = "Swap" \/ moves[j].n > moves[k].n)

(* C21  valid_moves lists the legal moves in descending pit number with    *)
(* Swap last, and the builder's default move orderer returns the same      *)
(* sequence as valid_moves in every state.                                 *)
C21_MoveOrder ==
    /\ DescendingThenSwap(valid_moves(state))
    /\ \A m \in Requests(state) :
          InSeq(m, valid_moves(state)) <=> make_move(state, m).result.some
    /\ default_move_orderer(state) = valid_moves(state)

\* Player 2 may swap or play either of two pits.
C21_Witness ==
    /\ PitPlayed
    /\ swap_allowed(state)
    /\ Len(valid_moves(state)) >= 3
    /\ default_move_orderer(state)[1].n > default_move_orderer(state)[2].n
    /\ default_move_orderer(state)[Len(valid_moves(state))] = Swap
\* The value the claim gives a field: the latest override, else the default.
Configured(f) ==
    IF builder.latest[f].some THEN builder.latest[f].val
    ELSE CASE f = "optimize_for" -> One
           [] f = "max_depth" -> Some(12)
           [] f = "max_time" -> None
           [] f = "move_orderer" -> "default_move_orderer"
           [] f = "evaluator" -> "store_differential"
           [] f = "heuristic" -> "store_differential"

\* C22: an engine built from a builder on which no setter was called
\* optimizes for Player 1 with depth limit 12, no time limit, and the store
\* differential of the optimized player as evaluator and as heuristic; every
\* field of a builder, and of the engine built from it, holds the argument of
\* the latest setter call for that field, or its default when there was none.
C22_BuilderDefaultsAndOverrides ==
    /\ builder.self.optimize_for = Configured("optimize_for")
    /\ builder.self.max_depth = Configured("max_depth")
    /\ builder.self.max_time = Configured("max_time")
    /\ builder.self.move_orderer = Configured("move_orderer")
    /\ builder.self.evaluator = Configured("evaluator")
    /\ builder.self.heuristic = Configured("heuristic")
    /\ builder.built /\ ~builder.stale =>
          /\ \A f \in Fields : engine[f] = builder.self[f]
          /\ ~engine.start_time.some
          /\ (\A f \in Fields : ~builder.latest[f].some) =>
                /\ evaluate(engine, state) = score(state, One) - score(state, Two)
                /\ get_heuristic(engine, state) = score(state, One) - score(state, Two)

C22_Witness ==
    /\ builder.built /\ ~builder.stale
    /\ builder.latest["max_depth"] = Some(Some(MaxDepth))
    /\ builder.latest["heuristic"] = Some("row_differential")
    /\ ~builder.latest["max_time"].some
    /\ engine.max_depth = Some(MaxDepth)
    /\ engine.max_time = None
    /\ engine.evaluator = "store_differential"
    /\ score(state, One) # score(state, Two)

\* C23: player2_moved is false until Player 2 makes a move other than Swap,
\* and true in the state a Pit move of Player 2 returns and ever after: a
\* game starts with the flag unset, a call keeps a set flag set, a Pit move
\* of Player 2 sets it, and no other call sets it.
C23_Player2MovedFlag ==
    (~initial.player2_moved /\ Accepted) =>
        (state.player2_moved <=>
            \/ Pre.player2_moved
            \/ (last.selection.kind = "Pit" /\ Pre.current_turn = Two))

\* The moves of a state with n pits, and the utility a list of pairs gives a
\* move: that of its pair, or negative infinity when it has none.
AllMoves(n) == { Swap } \cup { Pit(k) : k \in 1..n }

UtilityOf(utilities, m) ==
    IF \E k \in 1..Len(utilities) : utilities[k].move = m
    THEN utilities[CHOOSE k \in 1..Len(utilities) : utilities[k].move = m].utility
    ELSE NEG_INFINITY

\* C24: an example converted to the flat record and back has the state
\* fields of the original and, for every move of the state, exactly one pair,
\* holding the utility the search result gave the move, or negative infinity
\* when the search result had no pair for it.
C24_RoundTrip ==
    (example.made /\ example.stage = "back") =>
        /\ example.back.state = state
        /\ \A m \in AllMoves(pits(state)) :
              /\ Cardinality({ k \in 1..Len(example.back.utilities) :
                                 example.back.utilities[k].move = m }) = 1
              /\ UtilityOf(example.back.utilities, m) = UtilityOf(example.given, m)
              /\ UtilityOf(example.self.utilities, m) = UtilityOf(example.given, m)

\* The places of the board a walk passes, and two circuits of the 2N+1
\* places a sowing of the mover can reach, both starting at the mover's
\* first pit: with the mover's store after the mover's row, and with the
\* mover's store after the opponent's row.
PitAt(side, j) == << "pit", side, j >>
StoreAt(side) == << "store", side, 0 >>

StoreAfterOwnRow ==
    [c \in 0..(2 * pits(Pre)) |->
        IF c < pits(Pre) THEN PitAt(Mover, c)
        ELSE IF c = pits(Pre) THEN StoreAt(Mover)
        ELSE PitAt(Opponent, c - pits(Pre) - 1)]

StoreAfterOpponentRow ==
    [c \in 0..(2 * pits(Pre)) |->
        IF c < pits(Pre) THEN PitAt(Mover, c)
        ELSE IF c < 2 * pits(Pre) THEN PitAt(Opponent, c - pits(Pre))
        ELSE StoreAt(Mover)]

\* The stones of the latest Pit call that land at a place when stone k goes
\* to the k-th place after the picked pit on the circuit.
Dropped(circuit, place) ==
    Cardinality({ k \in 1..Picked :
                    circuit[(last.selection.n - 1 + k) % (2 * pits(Pre) + 1)] = place })

\* The board with every stone sown, before capture and sweep, is the board
\* before the move with the picked pit emptied and the stones dropped one
\* per step along the circuit.
SownAlong(circuit) ==
    /\ \A side \in 0..1 : \A j \in 0..(pits(Pre) - 1) :
          last.ret.sown.board[side][j] =
              (IF side = Mover /\ j = last.selection.n - 1 THEN 0 ELSE Pre.board[side][j])
                  + Dropped(circuit, PitAt(side, j))
    /\ \A side \in 0..1 :
          last.ret.sown.stores[side] = Pre.stores[side] + Dropped(circuit, StoreAt(side))

\* C25, as claimed: the stones of Pit(n) are placed one per step through the
\* mover's remaining pits, then the opponent's entire row, then the mover's
\* own store, then again the mover's row.
C25_SowingOrderStoreLast ==
    PitPlayed => SownAlong(StoreAfterOpponentRow)

\* C25, amended: the stones of Pit(n) are placed one per step through the
\* mover's remaining pits, then the mover's own store, then the opponent's
\* entire row, then again the mover's row; the opponent's store is passed
\* over.
C25_SowingOrderStoreAfterOwnRow ==
    PitPlayed => SownAlong(StoreAfterOwnRow)

\* A sowing that passes the mover's store and the opponent's whole row and
\* comes back to the mover's first pit.
C25_Witness ==
    /\ PitPlayed
    /\ pits(Pre) = 2
    /\ last.selection = Pit(2)
    /\ Picked = 2 * pits(Pre)
    /\ last.ret.sown.stores[Mover] = Pre.stores[Mover] + 1
    /\ last.ret.sown.board[Opponent][0] = Pre.board[Opponent][0] + 1
    /\ last.ret.sown.board[Opponent][1] = Pre.board[Opponent][1] + 1
    /\ last.ret.sown.board[Mover][0] = Pre.board[Mover][0] + 1
    /\ last.ret.sown.board[Mover][1] = 0

\* The reference distribution for Pit(n) on N pits: place c of the cyclic
\* sequence [own pits n+1..N, own store, opponent pits 1..N, own pits 1..n]
\* receives a stone, then place c+1, and so on around the sequence until
\* no stone is left.
DropOn(s, c) ==
    LET N == pits(Pre)
        n == last.selection.n
    IN  IF c < N - n THEN [s EXCEPT !.board[Mover][n + c] = @ + 1]
        ELSE IF c = N - n THEN [s EXCEPT !.stores[Mover] = @ + 1]
        ELSE IF c <= 2 * N - n THEN [s EXCEPT !.board[Opponent][c - (N - n) - 1] = @ + 1]
        ELSE [s EXCEPT !.board[Mover][c - (2 * N - n) - 1] = @ + 1]

RECURSIVE Distribute(_, _, _)
Distribute(s, c, left) ==
    IF left = 0 THEN s
    ELSE Distribute(DropOn(s, c), (c + 1) % (2 * pits(Pre) + 1), left - 1)

Reference ==
    Distribute([Pre EXCEPT !.board[Mover][last.selection.n - 1] = 0], 0, Picked)

\* C26: for a Pit(n) move picking up s stones, the board before capture and
\* sweep is the reference distribution: pit n emptied, then one stone per
\* place along the cyclic sequence of 2N+1 places for exactly s places,
\* whatever n and s are, sows of more than one lap included.
C26_ReferenceDistribution ==
    PitPlayed =>
        /\ last.ret.stones = Picked
        /\ last.ret.sown.board = Reference.board
        /\ last.ret.sown.stores = Reference.stores

\* A sow of more than one lap: the picked pit and the store both receive a
\* stone, and the first place after the picked pit receives two.
C26_Witness ==
    /\ PitPlayed
    /\ Picked > 2 * pits(Pre) + 1
    /\ last.ret.sown.board[Mover][last.selection.n - 1] = 1
    /\ last.ret.sown.stores[Mover] = Pre.stores[Mover] + 2
    /\ last.ret.sown.board[Opponent][0] = Pre.board[Opponent][0] + 1

\* C27: sowing never puts a stone into the opponent's store: with every
\* stone sown, and after a capture, the opponent's store is what it was, and
\* the move changes it only when the mover's row is empty at the end, which
\* is when the opponent sweeps their row into it.
C27_OpponentStoreUntouched ==
    PitPlayed =>
        /\ last.ret.sown.stores[Opponent] = Pre.stores[Opponent]
        /\ last.ret.looped.stores[Opponent] = Pre.stores[Opponent]
        /\ Post.stores[Opponent] # Pre.stores[Opponent] =>
              /\ RowSum(last.ret.looped.board[Mover]) = 0
              /\ Post.stores[Opponent] =
                    Pre.stores[Opponent] + RowSum(last.ret.looped.board[Opponent])

\* A sowing that goes past the opponent's store into the mover's own row
\* and ends no game.
C27_Witness ==
    /\ PitPlayed
    /\ Picked > 2 * pits(Pre) + 1 - last.selection.n
    /\ ~is_over(state)
    /\ last.ret.sown.board[Mover][0] > Pre.board[Mover][0]
    /\ last.ret.sown.stores[Mover] = Pre.stores[Mover] + 1
    /\ state.stores[Opponent] = Pre.stores[Opponent]

\* C28: stones in a store never re-enter play: a Pit move lowers neither
\* player's store, and no move, Swap included, lowers the sum of the two
\* stores.
C28_StoresNeverDecrease ==
    Accepted =>
        /\ Post.stores[0] + Post.stores[1] >= Pre.stores[0] + Pre.stores[1]
        /\ last.selection.kind = "Pit" =>
              \A p \in 0..1 : Post.stores[p] >= Pre.stores[p]

\* A sweep into a store that already held stones.
C28_Witness ==
    /\ PitPlayed
    /\ is_over(state)
    /\ \E p \in 0..1 :
          /\ Pre.stores[p] > 0
          /\ RowSum(last.ret.looped.board[p]) > 0
          /\ state.stores[p] = last.ret.looped.stores[p] + RowSum(last.ret.looped.board[p])

\* The pit the last stone lands in is on the mover's side and was empty
\* when the stone arrived: it held nothing before the move, or it is the
\* picked pit, and no earlier stone of the sowing reached it.
LandsInEmptyOwnPit ==
    /\ Landing < pits(Pre)
    /\ (Landing # last.selection.n - 1 => Pre.board[Mover][Landing] = 0)
    /\ Picked <= 2 * pits(Pre) + 1

\* C29: a capture happens only when the last sown stone lands in a
\* previously empty pit of the mover's own side; when it lands on the
\* opponent's side, in the store, or in an own pit that held stones, nothing
\* is captured, and no pit but the picked one holds fewer stones before the
\* sweep than before the move.
C29_CaptureOnlyOnEmptyOwnPit ==
    PitPlayed =>
        /\ last.ret.looped # last.ret.sown => LandsInEmptyOwnPit
        /\ ~LandsInEmptyOwnPit =>
              /\ last.ret.looped = last.ret.sown
              /\ \A side \in 0..1 : \A j \in 0..(pits(Pre) - 1) :
                    (side # Mover \/ j # last.selection.n - 1) =>
                        last.ret.looped.board[side][j] >= Pre.board[side][j]

\* The last stone lands in an own pit that held stones, opposite a pit with
\* stones, and nothing is taken.
C29_Witness ==
    /\ PitPlayed
    /\ Landing < pits(Pre)
    /\ Landing # last.selection.n - 1
    /\ Pre.board[Mover][Landing] > 0
    /\ last.ret.looped.board[Opponent][pits(Pre) - 1 - Landing] > 0
    /\ last.ret.looped.board[Mover][Landing] = Pre.board[Mover][Landing] + 1
    /\ last.ret.looped.stores = Pre.stores

\* The latest node was entered at or past the depth limit, or with the time
\* budget used up.
AtLimit ==
    \/ engine.max_depth.some /\ visit.depth >= engine.max_depth.val
    \/ LateVisit

\* C30: a max_value / min_value node whose state is not over is expanded
\* exactly when it is entered below the depth limit with time left; entered
\* at the limit, or with the time budget used up, it returns the heuristic
\* of its state for optimize_for with no move and makes no move, so the
\* moves made from the root to any node entered are as many as the node's
\* depth, and no node is entered deeper than max_depth.
C30_NoExpansionAtLimit ==
    /\ (ValueNode /\ ~is_over(visit.state)) =>
          /\ visit.kind = "expanded" <=> ~AtLimit
          /\ AtLimit =>
                /\ visit.kind = "cutoff"
                /\ visit.value = Apply(engine.heuristic, visit.state, engine.optimize_for)
                /\ InFlight(visit.by) => Len(inv[visit.by].stack) <= visit.depth
                /\ (visit.depth = 0 /\ inv[visit.by].status = "exiting") =>
                      /\ ~inv[visit.by].ret.best_move.some
                      /\ inv[visit.by].ret.v = visit.value
    /\ (visit.seen /\ InFlight(visit.by)) => Len(inv[visit.by].stack) <= visit.depth + 1
    /\ (visit.seen /\ engine.max_depth.some) => visit.depth <= engine.max_depth.val

\* A node two moves below the root, entered at the depth limit with a state
\* that is not over, while its parent's loop goes on.
C30_Witness ==
    /\ ValueNode /\ ~is_over(visit.state)
    /\ engine.max_depth = Some(2) /\ visit.depth = 2
    /\ visit.kind = "cutoff"
    /\ engine.heuristic = "row_differential"
    /\ visit.value # Differential(visit.state)
    /\ inv[visit.by].status = "running"
    /\ Len(inv[visit.by].stack) = 2

\* C31: in a search started by search_utility, a node entered is a
\* maximizing node exactly when the player to move in its state is the
\* player to move at the root: the role is kept after a move that keeps the
\* turn and changed after a move, Swap included, that passes it.
C31_RoleFollowsTurn ==
    (visit.seen /\ visit.by = 1 /\ inv[1].kind = "search_utility") =>
        /\ visit.fn \in { "max", "min" }
        /\ visit.fn = "max" <=> visit.state.current_turn = inv[1].root.current_turn

\* A minimizing node entered from a minimizing node after a bonus turn of
\* the root player's opponent, and a minimizing node entered by a Swap at
\* the root.
C31_Witness ==
    /\ visit.seen /\ visit.by = 1 /\ inv[1].kind = "search_utility"
    /\ inv[1].status = "running"
    /\ visit.kind # "expanded"
    /\ visit.fn = "min"
    /\ \/ /\ Top(inv[1]).fn = "min"
          /\ Top(inv[1]).state.current_turn = visit.state.current_turn
          /\ visit.depth = 2
       \/ /\ Top(inv[1]).fn = "max"
          /\ visit.depth = 1
          /\ Top(inv[1]).moves[Top(inv[1]).next - 1] = Swap

\* C32: when search_utility, and so search, returns a move for a state
\* (engine with the default move orderer), the move is one of the valid
\* moves of that state and make_move accepts it.
C32_ReturnedMoveIsLegal ==
    (inv[1].status = "returned" /\ inv[1].result.some
        /\ engine.move_orderer = "default_move_orderer") =>
        /\ Searched = Some(inv[1].result.val.move)
        /\ InSeq(Searched.val, valid_moves(inv[1].root))
        /\ make_move(inv[1].root, Searched.val).result.some

\* A search two moves deep has returned a pit move although the root also
\* has an empty pit.
C32_Witness ==
    /\ inv[1].status = "returned" /\ inv[1].result.some
    /\ engine.max_depth = Some(2)
    /\ Searched.val.kind = "Pit"
    /\ pits(inv[1].root) = 2
    /\ \E j \in 0..1 : inv[1].root.board[Idx(inv[1].root.current_turn)][j] = 0
    /\ make_move(inv[1].root, Searched.val).result.some

\* C33: in every state reached by accepted moves from a start state whose
\* two rows both hold stones, both rows hold a stone or both are empty; so
\* unless the game is over the player to move has a pit to play.
C33_RowsEmptyTogether ==
    (RowSum(initial.board[0]) > 0 /\ RowSum(initial.board[1]) > 0) =>
        /\ RowSum(state.board[0]) = 0 <=> RowSum(state.board[1]) = 0
        /\ ~is_over(state) =>
              \E n \in 1..pits(state) :
                  /\ InSeq(Pit(n), valid_moves(state))
                  /\ make_move(state, Pit(n)).result.some

\* The mover emptied their own row while the opponent still had stones, and
\* the sweep emptied the opponent's row too.
C33_Witness ==
    /\ RowSum(initial.board[0]) > 0 /\ RowSum(initial.board[1]) > 0
    /\ PitPlayed
    /\ RowSum(last.ret.looped.board[Mover]) = 0
    /\ RowSum(last.ret.looped.board[Opponent]) > 0
    /\ RowSum(state.board[0]) = 0 /\ RowSum(state.board[1]) = 0
    /\ state.ply > 2

\* The game has ended with a winner or a tie.
Decided == is_over(state) /\ outcome(state).kind \in { "Winner", "Tie" }

\* C34, as claimed: from any start state a play of legal moves reaches,
\* after finitely many moves, a state that is over, whose outcome is Winner
\* or Tie and not Ongoing.
C34_PlayEndsFromAnyStart == <>[]Decided

\* C34, amended: from a start state that is over, or in which the player to
\* move has a stone in their row, a play of legal moves reaches after
\* finitely many moves a state that is over, whose outcome is Winner or Tie;
\* from a start state that is not over and in which the player to move has
\* an empty row the game is never over and the outcome stays Ongoing: no
\* move is legal, except that where Swap is allowed the one legal move is
\* the Swap, and no move is legal in the state it returns.
C34_PlayEndsFromPlayableStart ==
    /\ (is_over(initial) \/ RowSum(initial.board[Idx(initial.current_turn)]) > 0)
          => <>[]Decided
    /\ (~is_over(initial) /\ RowSum(initial.board[Idx(initial.current_turn)]) = 0)
          => /\ [](~is_over(state) /\ outcome(state) = Ongoing)
             /\ ~swap_allowed(initial)
                   => [](state = initial /\ valid_moves(state) = << >>)
             /\ swap_allowed(initial)
                   => /\ valid_moves(initial) = << Swap >>
                      /\ <>[](/\ state.board[0] = initial.board[1]
                              /\ state.board[1] = initial.board[0]
                              /\ state.current_turn = One /\ state.ply = 3
                              /\ valid_moves(state) = << >>)

\* A game of at least four moves has ended with a winner.
C34_Witness ==
    /\ ~is_over(initial)
    /\ is_over(state)
    /\ state.ply >= 5
    /\ outcome(state).kind = "Winner"

\* C35: in a game that starts at ply 1 every accepted move adds one to the
\* ply, so the game passes through one state of ply 2; Swap is legal in that
\* state only, and only with Player 2 to move, so at most one Swap is played
\* in the game, and the state it returns has Player 1 to move at ply 3, where
\* Swap is not legal.
C35_SwapAtMostOnce ==
    initial.ply = 1 =>
        /\ state.ply >= 1
        /\ Accepted => state.ply = Pre.ply + 1
        /\ Rejected => state = Pre
        /\ \A s \in { state, initial } :
              (InSeq(Swap, valid_moves(s)) \/ make_move_swap(s).result.some) =>
                  s.ply = 2 /\ s.current_turn = Two
        /\ SwapPlayed =>
              /\ Pre.ply = 2 /\ Pre.current_turn = Two
              /\ state.current_turn = One /\ state.ply = 3
              /\ ~InSeq(Swap, valid_moves(state))
              /\ ~make_move_swap(state).result.some

\* Player 2 swapped on a board of two pits with stones in a store, and
\* Player 1 has pits to play.
C35_Witness ==
    /\ initial.ply = 1
    /\ SwapPlayed
    /\ pits(state) = 2
    /\ state.ply = 3 /\ state.current_turn = One
    /\ state.stores[1] > 0
    /\ Len(valid_moves(state)) = 2

\* The capture of the picked pit: with every stone sown the picked pit holds
\* one stone; after the capture it and the opposite pit hold none, and the
\* mover's store has that stone and what the opposite pit held.
SourceCaptured ==
    LET k == last.selection.n - 1
        opp == pits(Pre) - 1 - k
    IN  /\ last.ret.sown.board[Mover][k] = 1
        /\ last.ret.looped.board[Mover][k] = 0
        /\ last.ret.looped.board[Opponent][opp] = 0
        /\ last.ret.looped.stores[Mover] =
              last.ret.sown.stores[Mover] + 1 + last.ret.sown.board[Opponent][opp]
        /\ Post.board[Mover][k] = 0
        /\ Post.board[Opponent][opp] = 0

\* C36, as claimed: when the last stone of a Pit(n) sow lands back in pit n
\* itself, the capture fires on pit n: that stone and the opposite pit's
\* stones go to the mover's store and both pits end at zero.
C36_SourcePitCaptures ==
    (PitPlayed /\ Landing = last.selection.n - 1) => SourceCaptured

\* C36, amended: when the last stone of a Pit(n) sow lands back in pit n
\* after exactly one lap (2N+1 stones), the capture fires on pit n; after
\* more than one lap pit n holds a stone of every lap, nothing is captured
\* and pit n keeps its stones until the sweep.
C36_SourcePitCapturesAfterOneLap ==
    (PitPlayed /\ Landing = last.selection.n - 1) =>
        /\ Picked = 2 * pits(Pre) + 1 => SourceCaptured
        /\ Picked > 2 * pits(Pre) + 1 =>
              /\ last.ret.sown.board[Mover][last.selection.n - 1]
                    = Picked \div (2 * pits(Pre) + 1)
              /\ last.ret.looped = last.ret.sown

\* One lap from the second pit of a two-pit board: the capture takes the
\* stone and the two stones opposite.
C36_Witness ==
    /\ PitPlayed
    /\ pits(Pre) = 2 /\ last.selection = Pit(2)
    /\ Picked = 2 * pits(Pre) + 1
    /\ Landing = 1
    /\ last.ret.looped.stores[Mover] = Pre.stores[Mover] + 4
    /\ last.ret.looped.board[Opponent][0] = 0


-----------------------------------------------------------------------------
(* The external agent's moves file.                                        *)

\* The tokens of the file as external_move_input last read it.
Seen == agent.seen
FileRead == agent.status # "idle" /\ agent.lately = "read"

\* The value v of the file names a move that is legal in the state: 0 is
\* Swap and k is Pit(k).
LegalValue(v) ==
    \/ v = 0 /\ state.current_turn = Two /\ state.ply = 2
    \/ v \in 1..pits(state) /\ state.board[Idx(state.current_turn)][v - 1] > 0

LegalAt == { k \in 1..Len(Seen) : LegalValue(Seen[k]) }

\* The first value of the file read that is legal.
FirstLegalValue == Seen[CHOOSE k \in LegalAt : \A j \in LegalAt : k <= j]

MoveOfValue(v) == IF v = 0 THEN Swap ELSE Pit(v)

MoveReturned == agent.status = "returned"
CallPanicked == agent.status = "panicked"
StillWaiting == agent.status = "waiting"

\* The file read holds one unsigned number per move of the state.
FullRanking == Parses(Seen) /\ Len(Seen) = pits(state) + 1

\* C37 (as stated): for every moves file read that holds at least one legal
\* value, the move chosen is the first value of the file that is legal in
\* the state, 0 meaning Swap and k meaning Pit(k).
C37_FirstLegalValueChosen ==
    FileRead /\ LegalAt # {} =>
        MoveReturned /\ agent.move = MoveOfValue(FirstLegalValue)

\* C37 (amended): for every moves file read that holds exactly pits + 1
\* unsigned numbers, at least one of them legal, the move chosen is the
\* first value of the file that is legal in the state, 0 meaning Swap and k
\* meaning Pit(k); a move is chosen from no other file: a file of unsigned
\* numbers of another count is read again, and a file with a token that is
\* no unsigned number aborts the call.
C37_FirstLegalValueOfFullRankingChosen ==
    /\ FileRead /\ FullRanking /\ LegalAt # {} =>
          MoveReturned /\ agent.move = MoveOfValue(FirstLegalValue)
    /\ MoveReturned => FileRead /\ FullRanking /\ LegalAt # {}
    /\ FileRead /\ Parses(Seen) /\ Len(Seen) # pits(state) + 1 => StillWaiting
    /\ FileRead /\ ~Parses(Seen) => CallPanicked

\* A full ranking was read whose first value is not legal and whose second
\* is, and the second was chosen.
C37_Witness ==
    /\ MoveReturned /\ FullRanking
    /\ ~LegalValue(Seen[1]) /\ LegalValue(Seen[2])
    /\ agent.move = MoveOfValue(Seen[2])

\* C38: a malformed or absent moves file never makes the call fail: after
\* the file was found absent, or was read and holds a token that is no
\* unsigned number, the call is still waiting for a usable file: it has not
\* returned a move and has not aborted.
C38_MalformedFileIsRetried ==
    /\ agent.status # "idle" /\ agent.lately = "absent" => StillWaiting
    /\ FileRead /\ ~Parses(Seen) => StillWaiting

=============================================================================
